---------------------------- MODULE Spec2Model ----------------------------
(***************************************************************************)
(* The Bybit signing proxy (server.js) in its four revisions:              *)
(*   "server.js"  pass-through proxy, /mainnet/* and /testnet/*            *)
(*   "part_000"   signing proxy, keys optional (public calls unsigned)     *)
(*   "part_001"   signing proxy, keys required                             *)
(*   "part_002"   universal /bybit/* proxy with PROXY_TOKEN and env picker *)
(* Requests are handled concurrently: a handler runs without interruption  *)
(* up to its next await, and other requests are served while it waits.     *)
(* An action is one such uninterrupted run.                                *)
(*                                                                         *)
(* A JavaScript string is a sequence of one-character strings.  The        *)
(* characters of ASCII from space to "~" are themselves, tab, line feed,   *)
(* form feed and carriage return are "\t", "\n", "\f" and "\r", and the    *)
(* grave accent and every other UTF-16 code unit is written "U+" and its   *)
(* four hexadecimal digits: "U+0060", and "U+00A0" for the no-break space. *)
(* A string literal of the source that                                     *)
(* is only ever concatenated is kept as one element.  undefined and null   *)
(* are the one-element sequences Undefined and Null, which no text of the  *)
(* model equals.                                                           *)
(***************************************************************************)
EXTENDS Integers, Sequences, FiniteSets

VARIABLES
    rev,         \* which revision of server.js is running
    processEnv,  \* process.env, read once at startup
    inflight     \* for each connection, the request being handled on it:
                 \*   pc        where its handler is: "idle", "fetch" (await fetch),
                 \*             "text" (await r.text()) or "done" (response sent)
                 \*   route     the route that matched: "proxy" or "health"
                 \*   req       the inbound request (method, originalUrl, headers, body)
                 \*   env       the environment selected for the request
                 \*   creds     what credsFor returned
                 \*   out       the handler's locals: url, method, payload, bodyJson
                 \*   calls     the calls made to fetch: url and opts
                 \*   signings  the calls made to signBybit
                 \*   steps     the pipeline steps passed, in order
                 \*   answer    what fetch and r.text() resolved or rejected with
                 \*   res       the responses sent on res

vars == <<rev, processEnv, inflight>>

-----------------------------------------------------------------------------
(* Bounds of the model *)

\* presented proxy tokens: every text over TokenChars up to this length
MaxTokenLen == 2
\* the part of the inbound URL after "<prefix>/": every text over TailChars up to this length
MaxTailLen == 3
\* Date.now() answers MaxNow - 1 or MaxNow
MaxNow == 11

-----------------------------------------------------------------------------
(* JavaScript values and string operations *)

Undefined == <<"undefined">>
Null == <<"null">>
None == <<"none">>

\* x ? .. : ..  for undefined, null and strings
Truthy(x) == x # Undefined /\ x # Null /\ x # <<>>

\* a || b
Or(a, b) == IF Truthy(a) THEN a ELSE b

HexUpper == <<"0", "1", "2", "3", "4", "5", "6", "7", "8", "9", "A", "B", "C", "D", "E", "F">>
HexLower == <<"0", "1", "2", "3", "4", "5", "6", "7", "8", "9", "a", "b", "c", "d", "e", "f">>

\* the hexadecimal digit of n at place 1, 16, 256 or 4096
HexDigit(digits, n, place) == digits[((n \div place) % 16) + 1]

\* the characters of ASCII from space (32) to "~" (126); the grave accent (96) is
\* written by its code
Printable ==
    <<" ", "!", "\"", "#", "$", "%", "&", "'", "(", ")", "*", "+", ",", "-", ".", "/",
      "0", "1", "2", "3", "4", "5", "6", "7", "8", "9", ":", ";", "<", "=", ">", "?",
      "@", "A", "B", "C", "D", "E", "F", "G", "H", "I", "J", "K", "L", "M", "N", "O",
      "P", "Q", "R", "S", "T", "U", "V", "W", "X", "Y", "Z", "[", "\\", "]", "^", "_",
      "U+0060", "a", "b", "c", "d", "e", "f", "g", "h", "i", "j", "k", "l", "m", "n", "o",
      "p", "q", "r", "s", "t", "u", "v", "w", "x", "y", "z", "{", "|", "}", "~">>

\* String.fromCharCode(n), for a UTF-16 code unit n
CharOf(n) ==
    IF n >= 32 /\ n <= 126 THEN Printable[n - 31]
    ELSE IF n = 9 THEN "\t"
    ELSE IF n = 10 THEN "\n"
    ELSE IF n = 12 THEN "\f"
    ELSE IF n = 13 THEN "\r"
    ELSE "U+" \o HexDigit(HexUpper, n, 4096) \o HexDigit(HexUpper, n, 256)
              \o HexDigit(HexUpper, n, 16) \o HexDigit(HexUpper, n, 1)

\* String.prototype.charCodeAt, of a character
CodeOf(c) == CHOOSE n \in 0..65535 : CharOf(n) = c

\* what String.prototype.trim removes: WhiteSpace and LineTerminator of ECMAScript,
\* that is tab, line feed, vertical tab, form feed, carriage return, space, no-break
\* space, the byte order mark, the line and paragraph separators and the other
\* characters of category Zs
WhiteSpace ==
    {CharOf(n) : n \in {9, 10, 11, 12, 13, 32, 160, 5760, 8232, 8233, 8239, 8287, 12288, 65279}
                       \cup (8192..8202)}

\* s without the characters of set it starts with, and without those it ends with
RECURSIVE TrimStart(_, _)
TrimStart(s, set) ==
    IF s # <<>> /\ Head(s) \in set THEN TrimStart(Tail(s), set) ELSE s

RECURSIVE TrimEnd(_, _)
TrimEnd(s, set) ==
    IF s # <<>> /\ s[Len(s)] \in set
    THEN TrimEnd(SubSeq(s, 1, Len(s) - 1), set)
    ELSE s

\* String.prototype.trim
Trim(s) == TrimEnd(TrimStart(s, WhiteSpace), WhiteSpace)

\* the UTF-16 code units of code point cp
CodeUnits(cp) ==
    IF cp < 65536 THEN <<CharOf(cp)>>
    ELSE <<CharOf(55296 + ((cp - 65536) \div 1024)), CharOf(56320 + ((cp - 65536) % 1024))>>

HighSurrogates == {CharOf(n) : n \in 55296..56319}
LowSurrogates == {CharOf(n) : n \in 56320..57343}

\* whether a surrogate pair starts at position i of s
IsPair(s, i) == i >= 1 /\ i < Len(s) /\ s[i] \in HighSurrogates /\ s[i + 1] \in LowSurrogates

\* String.prototype.codePointAt
PointAt(s, i) ==
    IF IsPair(s, i)
    THEN 65536 + (CodeOf(s[i]) - 55296) * 1024 + (CodeOf(s[i + 1]) - 56320)
    ELSE CodeOf(s[i])

\* The simple lower-case mappings of the Unicode Character Database (Unicode 17), as
\* <<first, last, step, shift>>: every step-th code point from first to last has
\* the code point shift further on as its lower case.
LowerShifts ==
    {<<65, 90, 1, 32>>, <<192, 214, 1, 32>>, <<216, 222, 1, 32>>, <<256, 302, 2, 1>>,
     <<306, 310, 2, 1>>, <<313, 327, 2, 1>>, <<330, 374, 2, 1>>, <<376, 376, 1, -121>>,
     <<377, 381, 2, 1>>, <<385, 385, 1, 210>>, <<386, 388, 2, 1>>, <<390, 390, 1, 206>>,
     <<391, 391, 1, 1>>, <<393, 394, 1, 205>>, <<395, 395, 1, 1>>, <<398, 398, 1, 79>>,
     <<399, 399, 1, 202>>, <<400, 400, 1, 203>>, <<401, 401, 1, 1>>, <<403, 403, 1, 205>>,
     <<404, 404, 1, 207>>, <<406, 406, 1, 211>>, <<407, 407, 1, 209>>, <<408, 408, 1, 1>>,
     <<412, 412, 1, 211>>, <<413, 413, 1, 213>>, <<415, 415, 1, 214>>, <<416, 420, 2, 1>>,
     <<422, 422, 1, 218>>, <<423, 423, 1, 1>>, <<425, 425, 1, 218>>, <<428, 428, 1, 1>>,
     <<430, 430, 1, 218>>, <<431, 431, 1, 1>>, <<433, 434, 1, 217>>, <<435, 437, 2, 1>>,
     <<439, 439, 1, 219>>, <<440, 440, 1, 1>>, <<444, 444, 1, 1>>, <<452, 452, 1, 2>>,
     <<453, 453, 1, 1>>, <<455, 455, 1, 2>>, <<456, 456, 1, 1>>, <<458, 458, 1, 2>>,
     <<459, 475, 2, 1>>, <<478, 494, 2, 1>>, <<497, 497, 1, 2>>, <<498, 500, 2, 1>>,
     <<502, 502, 1, -97>>, <<503, 503, 1, -56>>, <<504, 542, 2, 1>>, <<544, 544, 1, -130>>,
     <<546, 562, 2, 1>>, <<570, 570, 1, 10795>>, <<571, 571, 1, 1>>, <<573, 573, 1, -163>>,
     <<574, 574, 1, 10792>>, <<577, 577, 1, 1>>, <<579, 579, 1, -195>>, <<580, 580, 1, 69>>,
     <<581, 581, 1, 71>>, <<582, 590, 2, 1>>, <<880, 882, 2, 1>>, <<886, 886, 1, 1>>,
     <<895, 895, 1, 116>>, <<902, 902, 1, 38>>, <<904, 906, 1, 37>>, <<908, 908, 1, 64>>,
     <<910, 911, 1, 63>>, <<913, 929, 1, 32>>, <<931, 939, 1, 32>>, <<975, 975, 1, 8>>,
     <<984, 1006, 2, 1>>, <<1012, 1012, 1, -60>>, <<1015, 1015, 1, 1>>, <<1017, 1017, 1, -7>>,
     <<1018, 1018, 1, 1>>, <<1021, 1023, 1, -130>>, <<1024, 1039, 1, 80>>, <<1040, 1071, 1, 32>>,
     <<1120, 1152, 2, 1>>, <<1162, 1214, 2, 1>>, <<1216, 1216, 1, 15>>, <<1217, 1229, 2, 1>>,
     <<1232, 1326, 2, 1>>, <<1329, 1366, 1, 48>>, <<4256, 4293, 1, 7264>>, <<4295, 4295, 1, 7264>>,
     <<4301, 4301, 1, 7264>>, <<5024, 5103, 1, 38864>>, <<5104, 5109, 1, 8>>, <<7305, 7305, 1, 1>>,
     <<7312, 7354, 1, -3008>>, <<7357, 7359, 1, -3008>>, <<7680, 7828, 2, 1>>, <<7838, 7838, 1, -7615>>,
     <<7840, 7934, 2, 1>>, <<7944, 7951, 1, -8>>, <<7960, 7965, 1, -8>>, <<7976, 7983, 1, -8>>,
     <<7992, 7999, 1, -8>>, <<8008, 8013, 1, -8>>, <<8025, 8031, 2, -8>>, <<8040, 8047, 1, -8>>,
     <<8072, 8079, 1, -8>>, <<8088, 8095, 1, -8>>, <<8104, 8111, 1, -8>>, <<8120, 8121, 1, -8>>,
     <<8122, 8123, 1, -74>>, <<8124, 8124, 1, -9>>, <<8136, 8139, 1, -86>>, <<8140, 8140, 1, -9>>,
     <<8152, 8153, 1, -8>>, <<8154, 8155, 1, -100>>, <<8168, 8169, 1, -8>>, <<8170, 8171, 1, -112>>,
     <<8172, 8172, 1, -7>>, <<8184, 8185, 1, -128>>, <<8186, 8187, 1, -126>>, <<8188, 8188, 1, -9>>,
     <<8486, 8486, 1, -7517>>, <<8490, 8490, 1, -8383>>, <<8491, 8491, 1, -8262>>, <<8498, 8498, 1, 28>>,
     <<8544, 8559, 1, 16>>, <<8579, 8579, 1, 1>>, <<9398, 9423, 1, 26>>, <<11264, 11311, 1, 48>>,
     <<11360, 11360, 1, 1>>, <<11362, 11362, 1, -10743>>, <<11363, 11363, 1, -3814>>, <<11364, 11364, 1, -10727>>,
     <<11367, 11371, 2, 1>>, <<11373, 11373, 1, -10780>>, <<11374, 11374, 1, -10749>>, <<11375, 11375, 1, -10783>>,
     <<11376, 11376, 1, -10782>>, <<11378, 11378, 1, 1>>, <<11381, 11381, 1, 1>>, <<11390, 11391, 1, -10815>>,
     <<11392, 11490, 2, 1>>, <<11499, 11501, 2, 1>>, <<11506, 11506, 1, 1>>, <<42560, 42604, 2, 1>>,
     <<42624, 42650, 2, 1>>, <<42786, 42798, 2, 1>>, <<42802, 42862, 2, 1>>, <<42873, 42875, 2, 1>>,
     <<42877, 42877, 1, -35332>>, <<42878, 42886, 2, 1>>, <<42891, 42891, 1, 1>>, <<42893, 42893, 1, -42280>>,
     <<42896, 42898, 2, 1>>, <<42902, 42920, 2, 1>>, <<42922, 42922, 1, -42308>>, <<42923, 42923, 1, -42319>>,
     <<42924, 42924, 1, -42315>>, <<42925, 42925, 1, -42305>>, <<42926, 42926, 1, -42308>>, <<42928, 42928, 1, -42258>>,
     <<42929, 42929, 1, -42282>>, <<42930, 42930, 1, -42261>>, <<42931, 42931, 1, 928>>, <<42932, 42946, 2, 1>>,
     <<42948, 42948, 1, -48>>, <<42949, 42949, 1, -42307>>, <<42950, 42950, 1, -35384>>, <<42951, 42953, 2, 1>>,
     <<42955, 42955, 1, -42343>>, <<42956, 42970, 2, 1>>, <<42972, 42972, 1, -42561>>, <<42997, 42997, 1, 1>>,
     <<65313, 65338, 1, 32>>, <<66560, 66599, 1, 40>>, <<66736, 66771, 1, 40>>, <<66928, 66938, 1, 39>>,
     <<66940, 66954, 1, 39>>, <<66956, 66962, 1, 39>>, <<66964, 66965, 1, 39>>, <<68736, 68786, 1, 64>>,
     <<68944, 68965, 1, 32>>, <<71840, 71871, 1, 32>>, <<93760, 93791, 1, 32>>, <<93856, 93880, 1, 27>>,
     <<125184, 125217, 1, 34>>}

\* the code points of a row of LowerShifts
Run(r) == {n \in r[1]..r[2] : (n - r[1]) % r[3] = 0}

\* the code units toLowerCase changes: those LowerShifts names, and U+0130, whose
\* lower case is "i" and the combining dot above
UpperCase ==
    {CharOf(n) : n \in (UNION {Run(r) : r \in {q \in LowerShifts : q[2] < 65536}}) \cup {304}}

\* the lower case of code point cp, as code units
LowerPoint(cp) ==
    IF cp = 304 THEN <<"i", CharOf(775)>>
    ELSE IF \E r \in LowerShifts : cp \in Run(r)
    THEN CodeUnits(cp + (CHOOSE r \in LowerShifts : cp \in Run(r))[4])
    ELSE CodeUnits(cp)

\* the lower case of a character that is no half of a surrogate pair
LowerOf(c) == IF c \in UpperCase THEN LowerPoint(CodeOf(c)) ELSE <<c>>

\* The code points with property Cased, and those with property Case_Ignorable,
\* of the Unicode Character Database (DerivedCoreProperties, Unicode 17), as
\* <<first, last>>.
CasedRanges ==
    {<<65, 90>>, <<97, 122>>, <<170, 170>>, <<181, 181>>, <<186, 186>>, <<192, 214>>,
     <<216, 246>>, <<248, 442>>, <<444, 447>>, <<452, 659>>, <<662, 696>>, <<704, 705>>,
     <<736, 740>>, <<837, 837>>, <<880, 883>>, <<886, 887>>, <<890, 893>>, <<895, 895>>,
     <<902, 902>>, <<904, 906>>, <<908, 908>>, <<910, 929>>, <<931, 1013>>, <<1015, 1153>>,
     <<1162, 1327>>, <<1329, 1366>>, <<1376, 1416>>, <<4256, 4293>>, <<4295, 4295>>, <<4301, 4301>>,
     <<4304, 4346>>, <<4348, 4351>>, <<5024, 5109>>, <<5112, 5117>>, <<7296, 7306>>, <<7312, 7354>>,
     <<7357, 7359>>, <<7424, 7615>>, <<7680, 7957>>, <<7960, 7965>>, <<7968, 8005>>, <<8008, 8013>>,
     <<8016, 8023>>, <<8025, 8025>>, <<8027, 8027>>, <<8029, 8029>>, <<8031, 8061>>, <<8064, 8116>>,
     <<8118, 8124>>, <<8126, 8126>>, <<8130, 8132>>, <<8134, 8140>>, <<8144, 8147>>, <<8150, 8155>>,
     <<8160, 8172>>, <<8178, 8180>>, <<8182, 8188>>, <<8305, 8305>>, <<8319, 8319>>, <<8336, 8348>>,
     <<8450, 8450>>, <<8455, 8455>>, <<8458, 8467>>, <<8469, 8469>>, <<8473, 8477>>, <<8484, 8484>>,
     <<8486, 8486>>, <<8488, 8488>>, <<8490, 8493>>, <<8495, 8500>>, <<8505, 8505>>, <<8508, 8511>>,
     <<8517, 8521>>, <<8526, 8526>>, <<8544, 8575>>, <<8579, 8580>>, <<9398, 9449>>, <<11264, 11492>>,
     <<11499, 11502>>, <<11506, 11507>>, <<11520, 11557>>, <<11559, 11559>>, <<11565, 11565>>, <<42560, 42605>>,
     <<42624, 42653>>, <<42786, 42887>>, <<42891, 42894>>, <<42896, 42972>>, <<42993, 42998>>, <<43000, 43002>>,
     <<43824, 43866>>, <<43868, 43881>>, <<43888, 43967>>, <<64256, 64262>>, <<64275, 64279>>, <<65313, 65338>>,
     <<65345, 65370>>, <<66560, 66639>>, <<66736, 66771>>, <<66776, 66811>>, <<66928, 66938>>, <<66940, 66954>>,
     <<66956, 66962>>, <<66964, 66965>>, <<66967, 66977>>, <<66979, 66993>>, <<66995, 67001>>, <<67003, 67004>>,
     <<67456, 67456>>, <<67459, 67461>>, <<67463, 67504>>, <<67506, 67514>>, <<68736, 68786>>, <<68800, 68850>>,
     <<68944, 68965>>, <<68976, 68997>>, <<71840, 71903>>, <<93760, 93823>>, <<93856, 93880>>, <<93883, 93907>>,
     <<119808, 119892>>, <<119894, 119964>>, <<119966, 119967>>, <<119970, 119970>>, <<119973, 119974>>, <<119977, 119980>>,
     <<119982, 119993>>, <<119995, 119995>>, <<119997, 120003>>, <<120005, 120069>>, <<120071, 120074>>, <<120077, 120084>>,
     <<120086, 120092>>, <<120094, 120121>>, <<120123, 120126>>, <<120128, 120132>>, <<120134, 120134>>, <<120138, 120144>>,
     <<120146, 120485>>, <<120488, 120512>>, <<120514, 120538>>, <<120540, 120570>>, <<120572, 120596>>, <<120598, 120628>>,
     <<120630, 120654>>, <<120656, 120686>>, <<120688, 120712>>, <<120714, 120744>>, <<120746, 120770>>, <<120772, 120779>>,
     <<122624, 122633>>, <<122635, 122654>>, <<122661, 122666>>, <<122928, 122989>>, <<125184, 125251>>, <<127280, 127305>>,
     <<127312, 127337>>, <<127344, 127369>>}

IgnorableRanges ==
    {<<39, 39>>, <<46, 46>>, <<58, 58>>, <<94, 94>>, <<96, 96>>, <<168, 168>>,
     <<173, 173>>, <<175, 175>>, <<180, 180>>, <<183, 184>>, <<688, 879>>, <<884, 885>>,
     <<890, 890>>, <<900, 901>>, <<903, 903>>, <<1155, 1161>>, <<1369, 1369>>, <<1375, 1375>>,
     <<1425, 1469>>, <<1471, 1471>>, <<1473, 1474>>, <<1476, 1477>>, <<1479, 1479>>, <<1524, 1524>>,
     <<1536, 1541>>, <<1552, 1562>>, <<1564, 1564>>, <<1600, 1600>>, <<1611, 1631>>, <<1648, 1648>>,
     <<1750, 1757>>, <<1759, 1768>>, <<1770, 1773>>, <<1807, 1807>>, <<1809, 1809>>, <<1840, 1866>>,
     <<1958, 1968>>, <<2027, 2037>>, <<2042, 2042>>, <<2045, 2045>>, <<2070, 2093>>, <<2137, 2139>>,
     <<2184, 2184>>, <<2192, 2193>>, <<2199, 2207>>, <<2249, 2306>>, <<2362, 2362>>, <<2364, 2364>>,
     <<2369, 2376>>, <<2381, 2381>>, <<2385, 2391>>, <<2402, 2403>>, <<2417, 2417>>, <<2433, 2433>>,
     <<2492, 2492>>, <<2497, 2500>>, <<2509, 2509>>, <<2530, 2531>>, <<2558, 2558>>, <<2561, 2562>>,
     <<2620, 2620>>, <<2625, 2626>>, <<2631, 2632>>, <<2635, 2637>>, <<2641, 2641>>, <<2672, 2673>>,
     <<2677, 2677>>, <<2689, 2690>>, <<2748, 2748>>, <<2753, 2757>>, <<2759, 2760>>, <<2765, 2765>>,
     <<2786, 2787>>, <<2810, 2815>>, <<2817, 2817>>, <<2876, 2876>>, <<2879, 2879>>, <<2881, 2884>>,
     <<2893, 2893>>, <<2901, 2902>>, <<2914, 2915>>, <<2946, 2946>>, <<3008, 3008>>, <<3021, 3021>>,
     <<3072, 3072>>, <<3076, 3076>>, <<3132, 3132>>, <<3134, 3136>>, <<3142, 3144>>, <<3146, 3149>>,
     <<3157, 3158>>, <<3170, 3171>>, <<3201, 3201>>, <<3260, 3260>>, <<3263, 3263>>, <<3270, 3270>>,
     <<3276, 3277>>, <<3298, 3299>>, <<3328, 3329>>, <<3387, 3388>>, <<3393, 3396>>, <<3405, 3405>>,
     <<3426, 3427>>, <<3457, 3457>>, <<3530, 3530>>, <<3538, 3540>>, <<3542, 3542>>, <<3633, 3633>>,
     <<3636, 3642>>, <<3654, 3662>>, <<3761, 3761>>, <<3764, 3772>>, <<3782, 3782>>, <<3784, 3790>>,
     <<3864, 3865>>, <<3893, 3893>>, <<3895, 3895>>, <<3897, 3897>>, <<3953, 3966>>, <<3968, 3972>>,
     <<3974, 3975>>, <<3981, 3991>>, <<3993, 4028>>, <<4038, 4038>>, <<4141, 4144>>, <<4146, 4151>>,
     <<4153, 4154>>, <<4157, 4158>>, <<4184, 4185>>, <<4190, 4192>>, <<4209, 4212>>, <<4226, 4226>>,
     <<4229, 4230>>, <<4237, 4237>>, <<4253, 4253>>, <<4348, 4348>>, <<4957, 4959>>, <<5906, 5908>>,
     <<5938, 5939>>, <<5970, 5971>>, <<6002, 6003>>, <<6068, 6069>>, <<6071, 6077>>, <<6086, 6086>>,
     <<6089, 6099>>, <<6103, 6103>>, <<6109, 6109>>, <<6155, 6159>>, <<6211, 6211>>, <<6277, 6278>>,
     <<6313, 6313>>, <<6432, 6434>>, <<6439, 6440>>, <<6450, 6450>>, <<6457, 6459>>, <<6679, 6680>>,
     <<6683, 6683>>, <<6742, 6742>>, <<6744, 6750>>, <<6752, 6752>>, <<6754, 6754>>, <<6757, 6764>>,
     <<6771, 6780>>, <<6783, 6783>>, <<6823, 6823>>, <<6832, 6877>>, <<6880, 6891>>, <<6912, 6915>>,
     <<6964, 6964>>, <<6966, 6970>>, <<6972, 6972>>, <<6978, 6978>>, <<7019, 7027>>, <<7040, 7041>>,
     <<7074, 7077>>, <<7080, 7081>>, <<7083, 7085>>, <<7142, 7142>>, <<7144, 7145>>, <<7149, 7149>>,
     <<7151, 7153>>, <<7212, 7219>>, <<7222, 7223>>, <<7288, 7293>>, <<7376, 7378>>, <<7380, 7392>>,
     <<7394, 7400>>, <<7405, 7405>>, <<7412, 7412>>, <<7416, 7417>>, <<7468, 7530>>, <<7544, 7544>>,
     <<7579, 7679>>, <<8125, 8125>>, <<8127, 8129>>, <<8141, 8143>>, <<8157, 8159>>, <<8173, 8175>>,
     <<8189, 8190>>, <<8203, 8207>>, <<8216, 8217>>, <<8228, 8228>>, <<8231, 8231>>, <<8234, 8238>>,
     <<8288, 8292>>, <<8294, 8303>>, <<8305, 8305>>, <<8319, 8319>>, <<8336, 8348>>, <<8400, 8432>>,
     <<11388, 11389>>, <<11503, 11505>>, <<11631, 11631>>, <<11647, 11647>>, <<11744, 11775>>, <<11823, 11823>>,
     <<12293, 12293>>, <<12330, 12333>>, <<12337, 12341>>, <<12347, 12347>>, <<12441, 12446>>, <<12540, 12542>>,
     <<40981, 40981>>, <<42232, 42237>>, <<42508, 42508>>, <<42607, 42610>>, <<42612, 42621>>, <<42623, 42623>>,
     <<42652, 42655>>, <<42736, 42737>>, <<42752, 42785>>, <<42864, 42864>>, <<42888, 42890>>, <<42993, 42996>>,
     <<43000, 43001>>, <<43010, 43010>>, <<43014, 43014>>, <<43019, 43019>>, <<43045, 43046>>, <<43052, 43052>>,
     <<43204, 43205>>, <<43232, 43249>>, <<43263, 43263>>, <<43302, 43309>>, <<43335, 43345>>, <<43392, 43394>>,
     <<43443, 43443>>, <<43446, 43449>>, <<43452, 43453>>, <<43471, 43471>>, <<43493, 43494>>, <<43561, 43566>>,
     <<43569, 43570>>, <<43573, 43574>>, <<43587, 43587>>, <<43596, 43596>>, <<43632, 43632>>, <<43644, 43644>>,
     <<43696, 43696>>, <<43698, 43700>>, <<43703, 43704>>, <<43710, 43711>>, <<43713, 43713>>, <<43741, 43741>>,
     <<43756, 43757>>, <<43763, 43764>>, <<43766, 43766>>, <<43867, 43871>>, <<43881, 43883>>, <<44005, 44005>>,
     <<44008, 44008>>, <<44013, 44013>>, <<64286, 64286>>, <<64434, 64450>>, <<65024, 65039>>, <<65043, 65043>>,
     <<65056, 65071>>, <<65106, 65106>>, <<65109, 65109>>, <<65279, 65279>>, <<65287, 65287>>, <<65294, 65294>>,
     <<65306, 65306>>, <<65342, 65342>>, <<65344, 65344>>, <<65392, 65392>>, <<65438, 65439>>, <<65507, 65507>>,
     <<65529, 65531>>, <<66045, 66045>>, <<66272, 66272>>, <<66422, 66426>>, <<67456, 67461>>, <<67463, 67504>>,
     <<67506, 67514>>, <<68097, 68099>>, <<68101, 68102>>, <<68108, 68111>>, <<68152, 68154>>, <<68159, 68159>>,
     <<68325, 68326>>, <<68900, 68903>>, <<68942, 68942>>, <<68969, 68973>>, <<68975, 68975>>, <<69291, 69292>>,
     <<69317, 69317>>, <<69370, 69375>>, <<69446, 69456>>, <<69506, 69509>>, <<69633, 69633>>, <<69688, 69702>>,
     <<69744, 69744>>, <<69747, 69748>>, <<69759, 69761>>, <<69811, 69814>>, <<69817, 69818>>, <<69821, 69821>>,
     <<69826, 69826>>, <<69837, 69837>>, <<69888, 69890>>, <<69927, 69931>>, <<69933, 69940>>, <<70003, 70003>>,
     <<70016, 70017>>, <<70070, 70078>>, <<70089, 70092>>, <<70095, 70095>>, <<70191, 70193>>, <<70196, 70196>>,
     <<70198, 70199>>, <<70206, 70206>>, <<70209, 70209>>, <<70367, 70367>>, <<70371, 70378>>, <<70400, 70401>>,
     <<70459, 70460>>, <<70464, 70464>>, <<70502, 70508>>, <<70512, 70516>>, <<70587, 70592>>, <<70606, 70606>>,
     <<70608, 70608>>, <<70610, 70610>>, <<70625, 70626>>, <<70712, 70719>>, <<70722, 70724>>, <<70726, 70726>>,
     <<70750, 70750>>, <<70835, 70840>>, <<70842, 70842>>, <<70847, 70848>>, <<70850, 70851>>, <<71090, 71093>>,
     <<71100, 71101>>, <<71103, 71104>>, <<71132, 71133>>, <<71219, 71226>>, <<71229, 71229>>, <<71231, 71232>>,
     <<71339, 71339>>, <<71341, 71341>>, <<71344, 71349>>, <<71351, 71351>>, <<71453, 71453>>, <<71455, 71455>>,
     <<71458, 71461>>, <<71463, 71467>>, <<71727, 71735>>, <<71737, 71738>>, <<71995, 71996>>, <<71998, 71998>>,
     <<72003, 72003>>, <<72148, 72151>>, <<72154, 72155>>, <<72160, 72160>>, <<72193, 72202>>, <<72243, 72248>>,
     <<72251, 72254>>, <<72263, 72263>>, <<72273, 72278>>, <<72281, 72283>>, <<72330, 72342>>, <<72344, 72345>>,
     <<72544, 72544>>, <<72546, 72548>>, <<72550, 72550>>, <<72752, 72758>>, <<72760, 72765>>, <<72767, 72767>>,
     <<72850, 72871>>, <<72874, 72880>>, <<72882, 72883>>, <<72885, 72886>>, <<73009, 73014>>, <<73018, 73018>>,
     <<73020, 73021>>, <<73023, 73029>>, <<73031, 73031>>, <<73104, 73105>>, <<73109, 73109>>, <<73111, 73111>>,
     <<73177, 73177>>, <<73459, 73460>>, <<73472, 73473>>, <<73526, 73530>>, <<73536, 73536>>, <<73538, 73538>>,
     <<73562, 73562>>, <<78896, 78912>>, <<78919, 78933>>, <<90398, 90409>>, <<90413, 90415>>, <<92912, 92916>>,
     <<92976, 92982>>, <<92992, 92995>>, <<93504, 93506>>, <<93547, 93548>>, <<94031, 94031>>, <<94095, 94111>>,
     <<94176, 94177>>, <<94179, 94180>>, <<94194, 94195>>, <<110576, 110579>>, <<110581, 110587>>, <<110589, 110590>>,
     <<113821, 113822>>, <<113824, 113827>>, <<118528, 118573>>, <<118576, 118598>>, <<119143, 119145>>, <<119155, 119170>>,
     <<119173, 119179>>, <<119210, 119213>>, <<119362, 119364>>, <<121344, 121398>>, <<121403, 121452>>, <<121461, 121461>>,
     <<121476, 121476>>, <<121499, 121503>>, <<121505, 121519>>, <<122880, 122886>>, <<122888, 122904>>, <<122907, 122913>>,
     <<122915, 122916>>, <<122918, 122922>>, <<122928, 122989>>, <<123023, 123023>>, <<123184, 123197>>, <<123566, 123566>>,
     <<123628, 123631>>, <<124139, 124143>>, <<124398, 124399>>, <<124643, 124643>>, <<124646, 124646>>, <<124654, 124655>>,
     <<124661, 124661>>, <<124671, 124671>>, <<125136, 125142>>, <<125252, 125259>>, <<127995, 127999>>, <<917505, 917505>>,
     <<917536, 917631>>, <<917760, 917999>>}

InRanges(cp, ranges) == \E r \in ranges : cp >= r[1] /\ cp <= r[2]

\* whether a cased letter is next, given the code point that is next and whether a
\* cased letter follows it: case-ignorable code points are passed over
CasedNext(cp, further) ==
    IF InRanges(cp, IgnorableRanges) THEN further ELSE InRanges(cp, CasedRanges)

\* whether a cased letter comes before the code unit after position i of s, and
\* whether one comes from position i on
RECURSIVE CasedBefore(_, _)
CasedBefore(s, i) ==
    IF i < 1 THEN FALSE
    ELSE IF IsPair(s, i - 1) THEN CasedNext(PointAt(s, i - 1), CasedBefore(s, i - 2))
    ELSE CasedNext(CodeOf(s[i]), CasedBefore(s, i - 1))

RECURSIVE CasedAfter(_, _)
CasedAfter(s, i) ==
    IF i > Len(s) THEN FALSE
    ELSE IF IsPair(s, i) THEN CasedNext(PointAt(s, i), CasedAfter(s, i + 2))
    ELSE CasedNext(CodeOf(s[i]), CasedAfter(s, i + 1))

\* String.prototype.toLowerCase: a capital sigma (U+03A3) that ends a word, the
\* condition Final_Sigma of SpecialCasing, becomes the final sigma (U+03C2)
RECURSIVE LowerFrom(_, _)
LowerFrom(s, i) ==
    IF i > Len(s) THEN <<>>
    ELSE IF IsPair(s, i) THEN LowerPoint(PointAt(s, i)) \o LowerFrom(s, i + 2)
    ELSE IF s[i] = CharOf(931) /\ CasedBefore(s, i - 1) /\ ~CasedAfter(s, i + 1)
    THEN <<CharOf(962)>> \o LowerFrom(s, i + 1)
    ELSE LowerOf(s[i]) \o LowerFrom(s, i + 1)

ToLowerCase(s) == LowerFrom(s, 1)

\* String.prototype.startsWith
StartsWith(s, p) == Len(s) >= Len(p) /\ SubSeq(s, 1, Len(p)) = p

\* s.replace(/^p/, "")
StripPrefix(s, p) ==
    IF StartsWith(s, p) THEN SubSeq(s, Len(p) + 1, Len(s)) ELSE s

\* the index of the first character of set in s from i on, 0 when there is none
RECURSIVE IndexFrom(_, _, _)
IndexFrom(s, set, i) ==
    IF i > Len(s) THEN 0
    ELSE IF s[i] \in set THEN i
    ELSE IndexFrom(s, set, i + 1)

\* String.prototype.indexOf, counted from 1
IndexOf(s, c) == IndexFrom(s, {c}, 1)

\* String.prototype.split with a one-character separator
RECURSIVE Split(_, _)
Split(s, c) ==
    LET i == IndexOf(s, c)
    IN  IF i = 0 THEN <<s>>
        ELSE <<SubSeq(s, 1, i - 1)>> \o Split(SubSeq(s, i + 1, Len(s)), c)

\* Number.prototype.toString, for a natural number
RECURSIVE ToString(_)
ToString(n) ==
    IF n < 10 THEN <<HexLower[n + 1]>> ELSE ToString(n \div 10) \o <<HexLower[(n % 10) + 1]>>

-----------------------------------------------------------------------------
(* JSON.stringify *)

\* A value is [t |-> its kind, v |-> its content]:
\*   "string"     v is its text
\*   "object"     v is the sequence of its members [k |-> name, v |-> value]
\*   "array"      v is the sequence of its items ("hole" where an index is not set)
\*   "literal"    v is the text of a number, true, false or null
\*   "undefined"  no value
JString(s) == [t |-> "string", v |-> s]
JObject(members) == [t |-> "object", v |-> members]
JArray(items) == [t |-> "array", v |-> items]
JTrue == [t |-> "literal", v |-> <<"t", "r", "u", "e">>]
JHole == [t |-> "hole", v |-> <<>>]
JUndefined == [t |-> "undefined", v |-> <<>>]


\* \uXXXX in lower-case digits, as JSON.stringify writes it
UnicodeEscape(n) ==
    <<"\\", "u", HexDigit(HexLower, n, 4096), HexDigit(HexLower, n, 256),
      HexDigit(HexLower, n, 16), HexDigit(HexLower, n, 1)>>

\* the characters of a JSON string literal: quote, backslash and the control
\* characters are escaped, and so is a surrogate that is not half of a pair
RECURSIVE JsonChars(_)
JsonChars(s) ==
    IF s = <<>> THEN <<>>
    ELSE LET c == Head(s)
         IN  IF c \in HighSurrogates /\ Len(s) > 1 /\ s[2] \in LowSurrogates
             THEN <<c, s[2]>> \o JsonChars(Tail(Tail(s)))
             ELSE (IF c = "\"" \/ c = "\\" THEN <<"\\", c>>
                   ELSE IF c = "\n" THEN <<"\\", "n">>
                   ELSE IF c = "\r" THEN <<"\\", "r">>
                   ELSE IF c = "\t" THEN <<"\\", "t">>
                   ELSE IF c = "\f" THEN <<"\\", "f">>
                   ELSE IF c = CharOf(8) THEN <<"\\", "b">>
                   ELSE IF c \in {CharOf(n) : n \in 0..31} THEN UnicodeEscape(CodeOf(c))
                   ELSE IF c \in HighSurrogates \cup LowSurrogates
                        THEN UnicodeEscape(CodeOf(c))
                   ELSE <<c>>)
                  \o JsonChars(Tail(s))

JsonString(s) == <<"\"">> \o JsonChars(s) \o <<"\"">>

RECURSIVE JSONstringify(_)
RECURSIVE JsonMembers(_)
RECURSIVE JsonItems(_)

JsonMembers(ms) ==
    IF ms = <<>> THEN <<>>
    ELSE JsonString(ms[1].k) \o <<":">> \o JSONstringify(ms[1].v)
         \o (IF Len(ms) > 1 THEN <<",">> ELSE <<>>)
         \o JsonMembers(Tail(ms))

JsonItems(items) ==
    IF items = <<>> THEN <<>>
    ELSE JSONstringify(items[1])
         \o (IF Len(items) > 1 THEN <<",">> ELSE <<>>)
         \o JsonItems(Tail(items))

\* JSON.stringify of a value that JSON.parse produced
JSONstringify(x) ==
    IF x.t = "string" THEN JsonString(x.v)
    ELSE IF x.t = "object" THEN <<"{">> \o JsonMembers(x.v) \o <<"}">>
    ELSE IF x.t = "array" THEN <<"[">> \o JsonItems(x.v) \o <<"]">>
    ELSE x.v

-----------------------------------------------------------------------------
(* req.query: the query string as Express parses it with qs.parse *)

\* the value of a hexadecimal digit, -1 for any other character
HexVal(c) ==
    IF \E d \in 1..16 : HexUpper[d] = c THEN (CHOOSE d \in 1..16 : HexUpper[d] = c) - 1
    ELSE IF \E d \in 11..16 : HexLower[d] = c THEN (CHOOSE d \in 11..16 : HexLower[d] = c) - 1
    ELSE -1

\* the byte that %XY at position k of s stands for, -1 if there is none
ByteAt(s, k) ==
    IF k + 2 <= Len(s) /\ s[k] = "%" /\ HexVal(s[k + 1]) >= 0 /\ HexVal(s[k + 2]) >= 0
    THEN 16 * HexVal(s[k + 1]) + HexVal(s[k + 2])
    ELSE -1

\* the number of bytes of the UTF-8 sequence that byte b starts, 0 if it starts none
Utf8Length(b) ==
    IF b >= 0 /\ b <= 127 THEN 1
    ELSE IF b >= 194 /\ b <= 223 THEN 2
    ELSE IF b >= 224 /\ b <= 239 THEN 3
    ELSE IF b >= 240 /\ b <= 244 THEN 4
    ELSE 0

\* whether b may be the second byte of a UTF-8 sequence that starts with lead
SecondByteOk(lead, b) ==
    IF lead = 224 THEN b >= 160 /\ b <= 191
    ELSE IF lead = 237 THEN b >= 128 /\ b <= 159
    ELSE IF lead = 240 THEN b >= 144 /\ b <= 191
    ELSE IF lead = 244 THEN b >= 128 /\ b <= 143
    ELSE b >= 128 /\ b <= 191

\* the j-th byte of the UTF-8 sequence of n bytes that starts at position k of s
\* (a continuation byte where the sequence is shorter)
ByteOf(s, k, n, j) == IF n >= j THEN ByteAt(s, k + 3 * (j - 1)) ELSE 128

\* whether the bytes b1 to b4 are a UTF-8 sequence of n bytes
WellFormed(n, b1, b2, b3, b4) ==
    /\ n > 0
    /\ n >= 2 => SecondByteOk(b1, b2)
    /\ b3 >= 128 /\ b3 <= 191
    /\ b4 >= 128 /\ b4 <= 191

\* the code point that the UTF-8 sequence b1 to b4 of n bytes encodes
CodePoint(n, b1, b2, b3, b4) ==
    IF n = 1 THEN b1
    ELSE IF n = 2 THEN (b1 - 192) * 64 + (b2 - 128)
    ELSE IF n = 3 THEN (b1 - 224) * 4096 + (b2 - 128) * 64 + (b3 - 128)
    ELSE (b1 - 240) * 262144 + (b2 - 128) * 4096 + (b3 - 128) * 64 + (b4 - 128)

\* the characters first before what was decoded of the rest
Before(first, rest) == [ok |-> rest.ok, v |-> first \o rest.v]

\* decodeURIComponent from position k of s on; ok is FALSE where it throws URIError
RECURSIVE DecodeFrom(_, _)
RECURSIVE DecodeSequence(_, _, _, _)
RECURSIVE DecodeBytes(_, _, _, _, _, _, _)

DecodeBytes(s, k, n, b1, b2, b3, b4) ==
    IF ~WellFormed(n, b1, b2, b3, b4) THEN [ok |-> FALSE, v |-> <<>>]
    ELSE Before(CodeUnits(CodePoint(n, b1, b2, b3, b4)), DecodeFrom(s, k + 3 * n))

DecodeSequence(s, k, n, b1) ==
    DecodeBytes(s, k, n, b1, ByteOf(s, k, n, 2), ByteOf(s, k, n, 3), ByteOf(s, k, n, 4))

DecodeFrom(s, k) ==
    IF k > Len(s) THEN [ok |-> TRUE, v |-> <<>>]
    ELSE IF s[k] # "%" THEN Before(<<s[k]>>, DecodeFrom(s, k + 1))
    ELSE DecodeSequence(s, k, Utf8Length(ByteAt(s, k)), ByteAt(s, k))

\* what was decoded, or s where decoding threw
DecodedOr(decoded, s) == IF decoded.ok THEN decoded.v ELSE s

\* the decoder of qs: decodeURIComponent(str.replace(/\+/g, " ")), and str itself
\* where that throws
QsDecode(s) ==
    DecodedOr(DecodeFrom([i \in 1..Len(s) |-> IF s[i] = "+" THEN " " ELSE s[i]], 1), s)

HasMember(ms, k) == \E i \in 1..Len(ms) : ms[i].k = k
Member(ms, k) == ms[CHOOSE i \in 1..Len(ms) : ms[i].k = k].v

\* the name under which an object's prototype is read and set
ProtoName == <<"_", "_", "p", "r", "o", "t", "o", "_", "_">>

\* whether the digits a stand for a smaller number than the digits b
DigitsLess(a, b) ==
    \/ Len(a) < Len(b)
    \/ /\ Len(a) = Len(b)
       /\ \E i \in 1..Len(a) :
              HexVal(a[i]) < HexVal(b[i]) /\ SubSeq(a, 1, i - 1) = SubSeq(b, 1, i - 1)

\* whether the property name k is an array index: the digits of a number up to
\* 2^32 - 2, written without leading zeros
IsIndex(k) ==
    /\ k # <<>>
    /\ \A i \in 1..Len(k) : HexVal(k[i]) \in 0..9
    /\ k[1] # "0" \/ Len(k) = 1
    /\ ~DigitsLess(<<"4", "2", "9", "4", "9", "6", "7", "2", "9", "4">>, k)

\* obj[k] = v.  The members are kept in the order Object.keys gives them: the array
\* indices in ascending order, then the other names in the order they were added.
\* Assigning to "__proto__" makes no member (the values assigned under that name
\* are texts and true, which the setter of the prototype passes over).
SetMember(ms, k, v) ==
    IF k = ProtoName THEN ms
    ELSE IF HasMember(ms, k)
    THEN [i \in 1..Len(ms) |-> IF ms[i].k = k THEN [k |-> k, v |-> v] ELSE ms[i]]
    ELSE IF IsIndex(k)
    THEN SubSeq(ms, 1, Cardinality({i \in 1..Len(ms) :
                                        IsIndex(ms[i].k) /\ DigitsLess(ms[i].k, k)}))
         \o <<[k |-> k, v |-> v]>>
         \o SubSeq(ms, Cardinality({i \in 1..Len(ms) :
                                        IsIndex(ms[i].k) /\ DigitsLess(ms[i].k, k)}) + 1,
                   Len(ms))
    ELSE Append(ms, [k |-> k, v |-> v])

\* the decoded key and value of a part cut at position pos, the whole part being
\* the key when pos is 0
CutAt(part, pos) ==
    IF pos = 0 THEN [k |-> QsDecode(part), v |-> <<>>]
    ELSE [k |-> QsDecode(SubSeq(part, 1, pos - 1)),
          v |-> QsDecode(SubSeq(part, pos + 1, Len(part)))]

\* the key and the value of one part of the query string: it is cut at the "=" that
\* follows the first "]=", else at its first "="
PartKeyVal(part) ==
    LET closing == {i \in 1..(Len(part) - 1) : part[i] = "]" /\ part[i + 1] = "="}
    IN  CutAt(part, IF closing # {} THEN (CHOOSE i \in closing : \A j \in closing : i <= j) + 1
                    ELSE IndexOf(part, "="))

\* [].concat(old, new), for the values of a key that appears again
Combine(old, new) ==
    IF old.t = "array" THEN JArray(Append(old.v, new)) ELSE JArray(<<old, new>>)

\* obj[key] = val, or the values combined if obj has the key already
AddPart(obj, kv) ==
    SetMember(obj, kv.k, IF ~HasMember(obj, kv.k) THEN JString(kv.v)
                         ELSE Combine(Member(obj, kv.k), JString(kv.v)))

\* parseValues of qs: the decoded keys in the order they first appear, a key that
\* appears again collecting its values in an array
RECURSIVE ParseValues(_, _)
ParseValues(parts, obj) ==
    IF parts = <<>> THEN obj
    ELSE ParseValues(Tail(parts), AddPart(obj, PartKeyVal(Head(parts))))

\* the first match of /\[[^[\]]*]/ in key from position i on: an opening bracket
\* whose next bracket is a closing one; from is 0 when there is none
RECURSIVE NextSegment(_, _)
NextSegment(key, i) ==
    IF i > Len(key) THEN [from |-> 0, to |-> 0]
    ELSE LET after == {j \in (i + 1)..Len(key) : key[j] \in {"[", "]"}}
             j == IF after = {} THEN 0 ELSE CHOOSE a \in after : \A b \in after : a <= b
         IN  IF key[i] = "[" /\ j > 0 /\ key[j] = "]"
             THEN [from |-> i, to |-> j]
             ELSE NextSegment(key, i + 1)

\* the bracket segments parseKeys of qs collects from position i on: at most depth
\* of them, whatever remains being kept as one more segment
RECURSIVE ChildSegments(_, _, _)
RECURSIVE SegmentsFrom(_, _, _)

\* the segments from the match m on
SegmentsFrom(key, m, depth) ==
    IF m.from = 0 THEN <<>>
    ELSE IF depth = 0 THEN << <<"[">> \o SubSeq(key, m.from, Len(key)) \o <<"]">> >>
    ELSE <<SubSeq(key, m.from, m.to)>> \o ChildSegments(key, m.to + 1, depth - 1)

ChildSegments(key, i, depth) == SegmentsFrom(key, NextSegment(key, i), depth)

\* the part of key before its first bracket segment, if it is not empty
ParentKey(key, first) ==
    IF first.from = 1 THEN <<>>
    ELSE IF first.from = 0 THEN (IF key # <<>> THEN <<key>> ELSE <<>>)
    ELSE <<SubSeq(key, 1, first.from - 1)>>

\* the chain of keys parseKeys of qs cuts a key into (depth: 5)
KeyChain(key) == ParentKey(key, NextSegment(key, 1)) \o ChildSegments(key, 1, 5)

\* a key of the chain without its brackets
CleanRoot(root) ==
    IF Len(root) >= 2 /\ root[1] = "[" /\ root[Len(root)] = "]"
    THEN SubSeq(root, 2, Len(root) - 1)
    ELSE root

\* parseObject of qs: the value a chain of keys puts leaf under ("[]" and "[n]"
\* with n up to the array limit 20 make arrays, "__proto__" is dropped)
RECURSIVE ParseObject(_, _)
ParseObject(chain, leaf) ==
    IF chain = <<>> THEN leaf
    ELSE LET inner == ParseObject(Tail(chain), leaf)
             root == Head(chain)
             cleanRoot == CleanRoot(root)
             indices == {n \in 0..20 : ToString(n) = cleanRoot}
         IN  IF root = <<"[", "]">>
             THEN IF inner.t = "array" THEN inner ELSE JArray(<<inner>>)
             ELSE IF indices # {} /\ root # cleanRoot
             THEN LET index == CHOOSE n \in indices : TRUE
                  IN  JArray([i \in 1..(index + 1) |-> IF i = index + 1 THEN inner ELSE JHole])
             ELSE IF cleanRoot = ProtoName
             THEN JObject(<<>>)
             ELSE JObject(<<[k |-> cleanRoot, v |-> inner]>>)

\* typeof x === "object"
IsObject(x) == x.t \in {"object", "array"}

\* arrayToObject of qs, and the own entries of an array or an object
RECURSIVE ArrayEntries(_, _)
ArrayEntries(items, i) ==
    IF i > Len(items) THEN <<>>
    ELSE (IF items[i].t = "hole" THEN <<>> ELSE <<[k |-> ToString(i - 1), v |-> items[i]]>>)
         \o ArrayEntries(items, i + 1)

OwnEntries(x) == IF x.t = "array" THEN ArrayEntries(x.v, 1) ELSE x.v

\* target[i] = item, for an array
SetItem(items, i, item) ==
    [j \in 1..(IF i > Len(items) THEN i ELSE Len(items)) |->
        IF j = i THEN item ELSE IF j <= Len(items) THEN items[j] ELSE JHole]

RECURSIVE Merge(_, _)
RECURSIVE MergeItems(_, _, _)
RECURSIVE MergeEntries(_, _)

\* source.forEach of utils.merge, on two arrays
MergeItems(target, source, i) ==
    IF i > Len(source) THEN target
    ELSE IF source[i].t = "hole" THEN MergeItems(target, source, i + 1)
    ELSE IF i <= Len(target) /\ target[i].t # "hole"
    THEN IF IsObject(target[i]) /\ IsObject(source[i])
         THEN MergeItems(SetItem(target, i, Merge(target[i], source[i])), source, i + 1)
         ELSE MergeItems(Append(target, source[i]), source, i + 1)
    ELSE MergeItems(SetItem(target, i, source[i]), source, i + 1)

\* Object.keys(source).reduce of utils.merge
MergeEntries(acc, entries) ==
    IF entries = <<>> THEN acc
    ELSE LET e == Head(entries)
         IN  MergeEntries(SetMember(acc, e.k, IF HasMember(acc, e.k)
                                              THEN Merge(Member(acc, e.k), e.v)
                                              ELSE e.v),
                          Tail(entries))

\* utils.merge of qs (with allowPrototypes, as Express sets it)
Merge(target, source) ==
    IF source.t \in {"undefined", "hole"} \/ (source.t = "string" /\ source.v = <<>>)
    THEN target
    ELSE IF ~IsObject(source)
    THEN IF target.t = "array" THEN JArray(Append(target.v, source))
         ELSE IF target.t = "object" THEN JObject(SetMember(target.v, source.v, JTrue))
         ELSE JArray(<<target, source>>)
    ELSE IF ~IsObject(target)
    THEN JArray(<<target>> \o (IF source.t = "array" THEN source.v ELSE <<source>>))
    ELSE IF target.t = "array" /\ source.t = "array"
    THEN JArray(MergeItems(target.v, source.v, 1))
    ELSE JObject(MergeEntries(OwnEntries(target), OwnEntries(source)))

\* utils.compact of qs: the holes of every array are removed
RECURSIVE Compact(_)
RECURSIVE CompactItems(_)
RECURSIVE CompactMembers(_)

CompactItems(items) ==
    IF items = <<>> THEN <<>>
    ELSE (IF Head(items).t = "hole" THEN <<>> ELSE <<Compact(Head(items))>>)
         \o CompactItems(Tail(items))

CompactMembers(ms) ==
    IF ms = <<>> THEN <<>>
    ELSE <<[k |-> Head(ms).k, v |-> Compact(Head(ms).v)]>> \o CompactMembers(Tail(ms))

Compact(x) ==
    IF x.t = "array" THEN JArray(CompactItems(x.v))
    ELSE IF x.t = "object" THEN JObject(CompactMembers(x.v))
    ELSE x

\* The path name and the query string of req.url, as parseurl(req) gives them to
\* Express's router and query parser.  The request targets modelled start with "/"
\* and name no protocol and no host.

\* url.parse turns the backslashes before the first "?" or "#" of a URL, which is at
\* position split (0: there is none), into slashes
Slashed(url, split) ==
    [i \in 1..Len(url) |-> IF url[i] = "\\" /\ (split = 0 \/ i < split) THEN "/" ELSE url[i]]

\* autoEscapeStr of url.parse: tab, line feed, carriage return, space and
\* " ' < > \ ^ ` { | } are replaced by their percent escapes
RECURSIVE autoEscapeStr(_)
autoEscapeStr(rest) ==
    IF rest = <<>> THEN <<>>
    ELSE (IF Head(rest) \in {CharOf(n) : n \in {9, 10, 13, 32, 34, 39, 60, 62, 92, 94, 96, 123, 124, 125}}
          THEN <<"%", HexDigit(HexUpper, CodeOf(Head(rest)), 16),
                 HexDigit(HexUpper, CodeOf(Head(rest)), 1)>>
          ELSE <<Head(rest)>>)
         \o autoEscapeStr(Tail(rest))

\* rest up to its first "#"
BeforeHash(rest) ==
    IF IndexOf(rest, "#") = 0 THEN rest ELSE SubSeq(rest, 1, IndexOf(rest, "#") - 1)

\* href cut at its first "?" into pathname and query
CutQuery(href) ==
    IF IndexOf(href, "?") = 0 THEN [pathname |-> href, query |-> <<>>]
    ELSE [pathname |-> SubSeq(href, 1, IndexOf(href, "?") - 1),
          query |-> SubSeq(href, IndexOf(href, "?") + 1, Len(href))]

\* simplePathPattern of url.parse, /^(\/\/?(?!\/)[^?\s]*)(\?[^\s]*)?$/: rest starts
\* with one slash or two, not three, and holds no white space
SimplePath(rest) ==
    /\ rest # <<>>
    /\ rest[1] = "/"
    /\ ~(Len(rest) >= 3 /\ rest[2] = "/" /\ rest[3] = "/")
    /\ \A i \in 1..Len(rest) : rest[i] \notin WhiteSpace

\* hostPattern of url.parse, /^\/\/[^@/]+@[^@/]+/: rest names a user and a host.
\* No request modelled does.
NamesHost(rest) ==
    \E i \in 4..(Len(rest) - 1) :
        /\ rest[1] = "/"
        /\ rest[2] = "/"
        /\ rest[i] = "@"
        /\ rest[i + 1] \notin {"@", "/"}
        /\ \A j \in 3..(i - 1) : rest[j] \notin {"@", "/"}

\* url.parse of the trimmed text rest: cut as it is if the URL has no "#", no "@"
\* before its "?" (simple) and is a simple path, else escaped and cut before its "#"
ParseRest(rest, simple) ==
    IF simple /\ SimplePath(rest) THEN CutQuery(rest)
    ELSE CutQuery(BeforeHash(autoEscapeStr(rest)))

\* url.parse(url), for a URL whose first "?" or "#" is at position split: the code
\* units below 33, the no-break space and the byte order mark are trimmed off
\* both ends
urlParse(url, split) ==
    ParseRest(TrimEnd(TrimStart(Slashed(url, split), {CharOf(n) : n \in (0..32) \cup {160, 65279}}),
                      {CharOf(n) : n \in (0..32) \cup {160, 65279}}),
              /\ IndexOf(url, "#") = 0
              /\ ~\E i \in 1..Len(url) : url[i] = "@" /\ (split = 0 \/ i < split))

\* parseurl(req), for req.url = url: fastparse cuts the URL at its first "?", and
\* leaves a URL that holds a tab, a line feed, a form feed, a carriage return, a
\* space, a "#", a no-break space or a byte order mark to url.parse
ParseUrl(url) ==
    IF /\ url # <<>>
       /\ url[1] = "/"
       /\ \A i \in 2..Len(url) : url[i] \notin {CharOf(n) : n \in {9, 10, 12, 13, 32, 35, 160, 65279}}
    THEN CutQuery(url)
    ELSE urlParse(url, IndexFrom(url, {"?", "#"}, 1))

\* the request target is a path in which url.parse finds no host: the path does not
\* start, once the backslashes before its "?" or "#" are slashes, with "//", a user
\* name, "@" and a host name.  The routes are modelled for these targets.
OriginForm(url) ==
    /\ url # <<>>
    /\ url[1] = "/"
    /\ ~NamesHost(Slashed(url, IndexFrom(url, {"?", "#"}, 1)))

\* parseurl(req).pathname, which Express's router matches the routes with
Pathname(url) == ParseUrl(url).pathname

\* parseurl(req).query, which Express's query parser reads
QueryString(url) == ParseUrl(url).query

\* acc with the value that chain puts leaf under, if the chain starts with
\* name: obj = utils.merge(obj, newObj), for the first value and the later ones
MergeChain(acc, chain, leaf, name) ==
    IF chain = <<>> \/ chain[1] \in {<<"[", "]">>} \/ CleanRoot(chain[1]) # name
    THEN acc
    ELSE IF acc.t = "undefined" THEN ParseObject(Tail(chain), leaf)
    ELSE Merge(acc, ParseObject(Tail(chain), leaf))

\* req.query[name]: every key whose chain starts with name is parsed into a value,
\* and the values are merged in the order of the keys
RECURSIVE MergeChains(_, _, _)
MergeChains(entries, name, acc) ==
    IF entries = <<>> THEN acc
    ELSE MergeChains(Tail(entries), name,
                     MergeChain(acc, KeyChain(Head(entries).k), Head(entries).v, name))

\* the first limit items of parts: String.prototype.split with a limit
Limited(parts, limit) == IF Len(parts) > limit THEN SubSeq(parts, 1, limit) ELSE parts

\* qs.parse(query)[name]; of the parts "&" separates the first 1000 are read
\* (parameterLimit)
ParseQuery(query, name) ==
    IF query = <<>> THEN JUndefined
    ELSE Compact(MergeChains(ParseValues(Limited(Split(query, "&"), 1000), <<>>),
                             name, JUndefined))

\* req.query[name] for the request of originalUrl url
QueryValue(url, name) == ParseQuery(QueryString(url), name)

-----------------------------------------------------------------------------
(* Texts of the program *)

Demo == <<"d", "e", "m", "o">>
Main == <<"m", "a", "i", "n">>
Mainnet == <<"m", "a", "i", "n", "n", "e", "t">>
Testnet == <<"t", "e", "s", "t", "n", "e", "t">>

\* the routing prefix of app.all("/bybit/*"), "/mainnet/*" and "/testnet/*"
BybitPrefix == <<"/", "b", "y", "b", "i", "t">>
MainnetPrefix == <<"/">> \o Mainnet
TestnetPrefix == <<"/">> \o Testnet

Revisions == {"server.js", "part_000", "part_001", "part_002"}
Signing == {"part_000", "part_001", "part_002"}

BYBIT_MAINNET == <<"https://api.bybit.com">>
BYBIT_DEMO == <<"https://api-demo-testnet.bybit.com">>
BYBIT_TESTNET(rv) ==
    IF rv = "server.js"
    THEN <<"https://api-demo-testnet.bybit.com">>
    ELSE <<"https://api-demo.bybit.com">>

ApplicationJson == <<"application/json">>

-----------------------------------------------------------------------------
(* Configuration, read from process.env at startup *)

EnvNames == {"PROXY_TOKEN", "BYBIT_MAINNET_API_KEY", "BYBIT_MAINNET_SECRET",
             "BYBIT_DEMO_API_KEY", "BYBIT_DEMO_SECRET", "BYBIT_RECV_WINDOW"}

PROXY_TOKEN == Trim(Or(processEnv["PROXY_TOKEN"], <<>>))
MAIN_KEY == Trim(Or(processEnv["BYBIT_MAINNET_API_KEY"], <<>>))
MAIN_SECRET == Trim(Or(processEnv["BYBIT_MAINNET_SECRET"], <<>>))
DEMO_KEY == Trim(Or(processEnv["BYBIT_DEMO_API_KEY"], <<>>))
DEMO_SECRET == Trim(Or(processEnv["BYBIT_DEMO_SECRET"], <<>>))
RECV_WINDOW == Trim(Or(processEnv["BYBIT_RECV_WINDOW"], <<"5", "0", "0", "0">>))

-----------------------------------------------------------------------------
(* The request and the response *)

\* what a call returned, or the error it threw: its name and its message
Returned(v) == [ok |-> TRUE, v |-> v, name |-> "none"]
Thrown(name, message) == [ok |-> FALSE, v |-> message, name |-> name]

\* req.header(name), req.headers[name]: header names are kept in lower case
Header(r, name) ==
    IF name \in DOMAIN r.headers THEN r.headers[name] ELSE Undefined

\* the text of a value where Array.prototype.join needs it: an object that has a
\* member toString of its own has no text
RECURSIVE TextOf(_)
RECURSIVE TextOfItems(_)

\* first, sep and others in one text, unless one of them has no text
Joined(first, sep, others) ==
    IF ~first.ok THEN first
    ELSE IF ~others.ok THEN others
    ELSE Returned(first.v \o sep \o others.v)

TextOfItems(items) ==
    IF items = <<>> THEN Returned(<<>>)
    ELSE Joined(TextOf(Head(items)),
                IF Len(items) > 1 THEN <<",">> ELSE <<>>,
                TextOfItems(Tail(items)))

TextOf(x) ==
    IF x.t = "array" THEN TextOfItems(x.v)
    ELSE IF x.t = "object"
    THEN IF HasMember(x.v, <<"t", "o", "S", "t", "r", "i", "n", "g">>)
         THEN Thrown("TypeError", <<"Cannot convert object to primitive value">>)
         ELSE Returned(<<"[", "o", "b", "j", "e", "c", "t", " ", "O", "b", "j", "e", "c", "t", "]">>)
    ELSE Returned(x.v)

\* (value || "").toString(), for the value of req.query.env
EnvToString(value) ==
    IF value.t = "object" /\ HasMember(value.v, <<"t", "o", "S", "t", "r", "i", "n", "g">>)
    THEN Thrown("TypeError",
                <<"(req.query.env || ", "\"", "\"", ").toString is not a function">>)
    ELSE TextOf(value)

\* (req.query.env || "").toString()
QueryEnvText(r) == EnvToString(QueryValue(r.originalUrl, <<"e", "n", "v">>))

\* res.status(status).json({ error: message })
JsonError(status, message) ==
    [status |-> status,
     contentType |-> ApplicationJson,
     body |-> JSONstringify(JObject(<<[k |-> <<"error">>, v |-> JString(message)]>>))]

\* e?.message || String(e), for the error a call threw
ErrorText(e) == IF Truthy(e.v) THEN e.v ELSE <<e.name>>

\* the catch block of the handler
CatchResponse(e) == JsonError(500, ErrorText(e))

\* res.json({ ok: true }) of app.get("/health")
HealthResponse ==
    [status |-> 200,
     contentType |-> ApplicationJson,
     body |-> JSONstringify(JObject(<<[k |-> <<"o", "k">>, v |-> JTrue]>>))]

\* text.trim().startsWith("{") ? "application/json" : "text/html"
InferContentType(text) ==
    IF StartsWith(Trim(text), <<"{">>) THEN ApplicationJson ELSE <<"text/html">>

\* faulty variant of RelayResponse: an upstream failure is answered as a proxy error
RelayTranslated(status, text) ==
    IF status >= 400
    THEN JsonError(500, <<"Upstream error">>)
    ELSE [status |-> status, contentType |-> InferContentType(text), body |-> text]

\* res.status(out.status).set("Content-Type", ct).send(out.text)
RelayResponse(status, text) ==
    [status |-> status, contentType |-> InferContentType(text), body |-> text]

-----------------------------------------------------------------------------
(* The functions of the signing revisions *)

\* mustAuth: authFail (whether it returned the response it sent, or null) and that response
AuthNull == [authFail |-> FALSE, sent |-> None]
AuthSent(response) == [authFail |-> TRUE, sent |-> response]

\* faulty variants of mustAuth: the open gate of the earlier revisions, and a gate that does not trim
mustAuthOpen(rv, r) == AuthNull

mustAuthUntrimmed(rv, r) ==
    IF rv = "part_002"
    THEN IF ~Truthy(PROXY_TOKEN)
         THEN AuthSent(JsonError(500, <<"PROXY_TOKEN not set">>))
         ELSE IF Or(Header(r, "x-proxy-token"), <<>>) # PROXY_TOKEN
              THEN AuthSent(JsonError(401, <<"Unauthorized">>))
              ELSE AuthNull
    ELSE AuthNull

mustAuth(rv, r) ==
    IF rv = "part_002"
    THEN IF ~Truthy(PROXY_TOKEN)
         THEN AuthSent(JsonError(500, <<"PROXY_TOKEN not set">>))
         ELSE LET presented == Trim(Or(Header(r, "x-proxy-token"), <<>>))
              IN  IF presented # PROXY_TOKEN
                  THEN AuthSent(JsonError(401, <<"Unauthorized">>))
                  ELSE AuthNull
    ELSE AuthNull

\* if (env !== "demo" && env !== "main") throw new Error(..); return env;
CheckEnv(e) ==
    IF e # Demo /\ e # Main
    THEN Thrown("Error", <<"Invalid env ", "\"">> \o e \o <<"\"", ". Use demo|main.">>)
    ELSE Returned(e)

\* const h = (req.header("X-BYBIT-ENV") || "").trim().toLowerCase()
EnvHeader(r) == ToLowerCase(Trim(Or(Header(r, "x-bybit-env"), <<>>)))

\* h || q || "demo", checked, for the text of the query parameter (if it has one)
EnvOf(h, text) ==
    IF ~text.ok THEN text
    ELSE CheckEnv(Or(h, Or(ToLowerCase(Trim(text.v)), Demo)))

\* pickEnv
pickEnv(r) == EnvOf(EnvHeader(r), QueryEnvText(r))

\* credsFor
credsFor(rv, e) ==
    CASE rv = "part_002" ->
           IF e = Main
           THEN IF ~Truthy(MAIN_KEY) \/ ~Truthy(MAIN_SECRET)
                THEN Thrown("Error", <<"Mainnet keys missing in env">>)
                ELSE Returned([baseUrl |-> BYBIT_MAINNET, apiKey |-> MAIN_KEY, secret |-> MAIN_SECRET])
           ELSE IF ~Truthy(DEMO_KEY) \/ ~Truthy(DEMO_SECRET)
                THEN Thrown("Error", <<"Demo keys missing in env">>)
                ELSE Returned([baseUrl |-> BYBIT_DEMO, apiKey |-> DEMO_KEY, secret |-> DEMO_SECRET])
      [] rv = "part_001" ->
           IF e = Mainnet
           THEN IF ~Truthy(MAIN_KEY) \/ ~Truthy(MAIN_SECRET)
                THEN Thrown("Error", <<"Mainnet keys missing in env">>)
                ELSE Returned([baseUrl |-> BYBIT_MAINNET, apiKey |-> MAIN_KEY, secret |-> MAIN_SECRET])
           ELSE IF ~Truthy(DEMO_KEY) \/ ~Truthy(DEMO_SECRET)
                THEN Thrown("Error", <<"Testnet keys missing in env">>)
                ELSE Returned([baseUrl |-> BYBIT_TESTNET(rv), apiKey |-> DEMO_KEY, secret |-> DEMO_SECRET])
      [] OTHER ->
           IF e = Mainnet
           THEN Returned([baseUrl |-> BYBIT_MAINNET,
                          apiKey |-> Or(MAIN_KEY, Null), secret |-> Or(MAIN_SECRET, Null)])
           ELSE Returned([baseUrl |-> BYBIT_TESTNET(rv),
                          apiKey |-> Or(DEMO_KEY, Null), secret |-> Or(DEMO_SECRET, Null)])

\* signBybit: the HMAC-SHA256 of signStr under secret, kept as the pair it is computed from
signBybit(in) ==
    LET signStr == in.timestamp \o in.apiKey \o in.recvWindow \o in.payload
    IN  <<"hmac-sha256-hex", in.secret, signStr>>

\* the argument forwardToBybit hands to signBybit
SigningInput(c, payload, now) ==
    [timestamp |-> ToString(now), apiKey |-> c.apiKey, secret |-> c.secret,
     recvWindow |-> RECV_WINDOW, payload |-> payload]

\* faulty variant of Signs: part_000 signs like the later revisions, whatever the keys
SignsAlways(rv, c) == TRUE

\* whether forwardToBybit signs: always, but in part_000 only if (apiKey && secret)
Signs(rv, c) == rv # "part_000" \/ (Truthy(c.apiKey) /\ Truthy(c.secret))

AuthHeaderNames == {"X-BAPI-API-KEY", "X-BAPI-TIMESTAMP", "X-BAPI-SIGN", "X-BAPI-RECV-WINDOW"}

\* the headers forwardToBybit builds
ForwardHeaders(rv, c, payload, now) ==
    LET in == SigningInput(c, payload, now)
    IN  [n \in {"Content-Type"} \cup (IF Signs(rv, c) THEN AuthHeaderNames ELSE {}) |->
            CASE n = "X-BAPI-API-KEY" -> c.apiKey
              [] n = "X-BAPI-TIMESTAMP" -> in.timestamp
              [] n = "X-BAPI-SIGN" -> signBybit(in)
              [] n = "X-BAPI-RECV-WINDOW" -> RECV_WINDOW
              [] OTHER -> ApplicationJson]

\* faulty variant of ForwardOpts: the body is serialized a second time for sending
ForwardOptsReserialized(method, headers, bodyJson) ==
    [method |-> method, headers |-> headers,
     body |-> IF method # "GET" THEN JsonString(bodyJson) ELSE Undefined]

\* const opts = { method, headers }; if (method !== "GET") opts.body = bodyJson;
ForwardOpts(method, headers, bodyJson) ==
    [method |-> method, headers |-> headers,
     body |-> IF method # "GET" THEN bodyJson ELSE Undefined]

\* req.method.toUpperCase(): Node hands the method over in upper case
ToUpperMethod(m) ==
    CASE m = "get" -> "GET" [] m = "post" -> "POST" [] m = "head" -> "HEAD"
      [] m = "trace" -> "TRACE" [] OTHER -> m

\* Express matches the path of a route without regard to case (the flag i of its
\* regular expression): the letters A-Z of s as a-z.  No character outside ASCII
\* equals an ASCII letter under that flag.
Folded(s) ==
    [i \in 1..Len(s) |->
        IF s[i] \in {CharOf(n) : n \in 65..90} THEN CharOf(CodeOf(s[i]) + 32) ELSE s[i]]

\* the route app.all(prefix + "/*"), /^prefix\/(.*)\/?$/i, takes the path name: the
\* "." matches no line terminator, and the text captured is decoded with
\* decodeURIComponent (a text that cannot be decoded is answered 400 by Express)
StarRoute(prefix, name) ==
    /\ Len(name) > Len(prefix)
    /\ Folded(SubSeq(name, 1, Len(prefix) + 1)) = prefix \o <<"/">>
    /\ \A i \in (Len(prefix) + 2)..Len(name) :
           name[i] \notin {CharOf(n) : n \in {10, 13, 8232, 8233}}
    /\ DecodeFrom(SubSeq(name, Len(prefix) + 2, Len(name)), 1).ok

\* the route app.get("/health"), /^\/health\/?$/i, takes request r: a route of GET
\* takes HEAD too
HealthRoute(r) ==
    /\ r.method \in {"GET", "HEAD"}
    /\ Folded(Pathname(r.originalUrl))
           \in {<<"/", "h", "e", "a", "l", "t", "h">>, <<"/", "h", "e", "a", "l", "t", "h", "/">>}

\* the routing prefix of the first proxy route of revision rv that takes the path
\* name; None if none does
RouteOf(rv, name) ==
    IF rv = "part_002"
    THEN IF StarRoute(BybitPrefix, name) THEN BybitPrefix ELSE None
    ELSE IF StarRoute(MainnetPrefix, name) THEN MainnetPrefix
    ELSE IF StarRoute(TestnetPrefix, name) THEN TestnetPrefix
    ELSE None

\* the routing prefix of the route of revision rv that takes request r, which is the
\* prefix its handler strips; None if no proxy route takes r
PrefixOf(rv, r) == RouteOf(rv, Pathname(r.originalUrl))

\* the environment the route's handler names: the base URL it passes to
\* proxyToBybit, credsFor("mainnet"), credsFor("testnet")
RouteEnv(rv, r) ==
    IF rv = "part_002" THEN None
    ELSE IF PrefixOf(rv, r) = MainnetPrefix THEN Mainnet
    ELSE Testnet

\* const [pathname, qs = ""] = path.split("?")
SplitPath(path) ==
    LET parts == Split(path, "?")
    IN  [pathname |-> parts[1], qs |-> IF Len(parts) > 1 THEN parts[2] ELSE <<>>]

\* `${baseUrl}${pathname}${qs ? `?${qs}` : ""}`
BuildUrl(baseUrl, pathname, qs) ==
    baseUrl \o pathname \o (IF Truthy(qs) THEN <<"?">> \o qs ELSE <<>>)

\* bodyJson = JSON.stringify(req.body ?? {})
BodyJson(body) ==
    JSONstringify(IF body.t = "undefined" THEN JObject(<<>>) ELSE body)

\* url, method, payload and bodyJson as the handler computes them
Locals(baseUrl, sp, method, bodyJson) ==
    [url |-> BuildUrl(baseUrl, sp.pathname, sp.qs),
     method |-> method,
     payload |-> IF method = "GET" THEN Or(sp.qs, <<>>) ELSE bodyJson,
     bodyJson |-> bodyJson]

\* the handler's locals before it calls forwardToBybit
HandlerLocals(rv, r, c) ==
    Locals(c.baseUrl,
           SplitPath(StripPrefix(r.originalUrl, PrefixOf(rv, r))),
           ToUpperMethod(r.method),
           IF ToUpperMethod(r.method) = "GET" THEN <<>> ELSE BodyJson(r.body))

-----------------------------------------------------------------------------
(* The pass-through revision: proxyToBybit of server.js *)

headersToCopy == {"x-bapi-api-key", "x-bapi-timestamp", "x-bapi-sign",
                  "x-bapi-recv-window", "content-type", "accept",
                  "accept-language", "cache-control"}

\* the name a copied header is sent under
BybitHeaderName(h) ==
    CASE h = "x-bapi-api-key" -> "X-BAPI-API-KEY"
      [] h = "x-bapi-timestamp" -> "X-BAPI-TIMESTAMP"
      [] h = "x-bapi-sign" -> "X-BAPI-SIGN"
      [] h = "x-bapi-recv-window" -> "X-BAPI-RECV-WINDOW"
      [] OTHER -> h

\* the headers proxyToBybit builds
ProxyHeaders(r, method) ==
    LET copied == {h \in headersToCopy : Truthy(Header(r, h))}
        from(n) == CHOOSE h \in copied : BybitHeaderName(h) = n
    IN  [n \in {BybitHeaderName(h) : h \in copied}
               \cup (IF "content-type" \notin copied /\ method # "GET"
                     THEN {"Content-Type"} ELSE {})
               \cup {"User-Agent"} |->
            CASE n = "User-Agent" ->
                    <<"Mozilla/5.0 (Windows NT 10.0; Win64; x64) AppleWebKit/537.36 (KHTML, like Gecko) Chrome/120.0.0.0 Safari/537.36">>
              [] n = "Content-Type" -> ApplicationJson
              [] OTHER -> Header(r, from(n))]

\* the body proxyToBybit puts into opts
ProxyBody(method, body) ==
    IF method # "GET" /\ method # "HEAD"
    THEN IF IsObject(body) THEN JSONstringify(body)
         ELSE IF body.t = "string" /\ Truthy(body.v) THEN body.v
         ELSE Undefined
    ELSE Undefined

\* the url and opts proxyToBybit calls fetch with
ProxyCall(rv, r) ==
    LET baseUrl == IF RouteEnv(rv, r) = Mainnet THEN BYBIT_MAINNET ELSE BYBIT_TESTNET(rv)
        path == StripPrefix(r.originalUrl, PrefixOf(rv, r))
        method == ToUpperMethod(r.method)
    IN  [url |-> baseUrl \o path,
         opts |-> [method |-> method,
                   headers |-> ProxyHeaders(r, method),
                   body |-> ProxyBody(method, r.body)]]

-----------------------------------------------------------------------------
(* fetch, as the platform provides it *)

\* the methods fetch does not send
ForbiddenMethods == {"CONNECT", "TRACE", "TRACK"}

\* new Request(url, opts) refuses a forbidden method, and a body on GET and HEAD:
\* fetch returns a promise that is rejected already
RefusedByFetch(opts) ==
    \/ opts.method \in ForbiddenMethods
    \/ opts.method \in {"GET", "HEAD"} /\ opts.body # Undefined

\* the TypeError of that refusal
Refusal(opts) ==
    IF opts.method \in ForbiddenMethods
    THEN Thrown("TypeError", <<"'", opts.method, "'", " HTTP method is unsupported.">>)
    ELSE Thrown("TypeError", <<"Request with GET/HEAD method cannot have body.">>)

\* the errors fetch(url, opts) and r.text() reject with when the upstream cannot be
\* reached or its body breaks off
FetchErrors == {Thrown("TypeError", <<"fetch failed">>)}
TextErrors == {Thrown("TypeError", <<"terminated">>)}

UpstreamStatuses == {200, 403}
UpstreamTexts == {<<"{", "}">>, <<"\n", "{">>, <<"<">>, <<>>}

\* what fetch and r.text() have answered so far
NoAnswer == [stage |-> "none", ok |-> FALSE, status |-> 0, text |-> <<>>]
FetchResolved(status) == [stage |-> "fetch", ok |-> TRUE, status |-> status, text |-> <<>>]
FetchRejected(e) == [stage |-> "fetch", ok |-> FALSE, status |-> 0, text |-> ErrorText(e)]
TextResolved(status, text) == [stage |-> "text", ok |-> TRUE, status |-> status, text |-> text]
TextRejected(status, e) == [stage |-> "text", ok |-> FALSE, status |-> status, text |-> ErrorText(e)]

-----------------------------------------------------------------------------
(* The handlers, each up to its first await *)

\* no request on the connection
Idle ==
    [pc |-> "idle", route |-> "none", req |-> None, env |-> None, creds |-> None,
     out |-> None, calls |-> <<>>, signings |-> <<>>, steps |-> <<>>,
     answer |-> NoAnswer, res |-> <<>>]

\* the handler ended with the response it sent, before any call of fetch
Stopped(r, e, steps, response) ==
    [Idle EXCEPT !.pc = "done", !.route = "proxy", !.req = r, !.env = e,
                 !.steps = steps, !.res = <<response>>]

\* the handler called fetch: it waits for the answer, or has answered 500 already
\* if fetch refused the call
Called(h, call) ==
    IF RefusedByFetch(call.opts)
    THEN [h EXCEPT !.pc = "done", !.calls = <<call>>,
                   !.answer = FetchRejected(Refusal(call.opts)),
                   !.res = <<CatchResponse(Refusal(call.opts))>>]
    ELSE [h EXCEPT !.pc = "fetch", !.calls = <<call>>]

\* the pipeline steps a handler of revision rv has passed when pickEnv has returned
PickedSteps(rv) == <<"mustAuth">> \o (IF rv = "part_002" THEN <<"pickEnv">> ELSE <<>>)

\* forwardToBybit, called with the handler's locals o, up to await fetch(url, opts)
ForwardToBybit(rv, r, e, c, o, now) ==
    Called([Idle EXCEPT !.route = "proxy", !.req = r, !.env = e, !.creds = c, !.out = o,
                        !.signings = IF Signs(rv, c)
                                     THEN <<SigningInput(c, o.payload, now)>>
                                     ELSE <<>>,
                        !.steps = PickedSteps(rv) \o <<"credsFor", "forwardToBybit">>],
           [url |-> o.url,
            opts |-> ForwardOpts(o.method, ForwardHeaders(rv, c, o.payload, now), o.bodyJson)])

\* what the handler's steps return, each step called only if the one before it let
\* the request pass: mustAuth (a), pickEnv (p), credsFor (c), the handler's locals (o)
PickEnvStep(rv, r, a) ==
    IF a.authFail THEN Thrown("none", <<>>)
    ELSE IF rv = "part_002" THEN pickEnv(r)
    ELSE Returned(RouteEnv(rv, r))
CredsForStep(rv, p) == IF p.ok THEN credsFor(rv, p.v) ELSE Thrown("none", <<>>)
LocalsStep(rv, r, c) == IF c.ok THEN HandlerLocals(rv, r, c.v) ELSE None

\* the handler of app.all("/bybit/*"), "/mainnet/*" and "/testnet/*" in the signing
\* revisions, from mustAuth to await fetch(url, opts) in forwardToBybit, given what
\* its steps return
Handler(rv, r, a, p, c, o, now) ==
    IF a.authFail THEN Stopped(r, RouteEnv(rv, r), <<>>, a.sent)
    ELSE IF ~p.ok THEN Stopped(r, None, <<"mustAuth">>, CatchResponse(p))
    ELSE IF ~c.ok THEN Stopped(r, p.v, PickedSteps(rv), CatchResponse(c))
    ELSE ForwardToBybit(rv, r, p.v, c.v, o, now)

\* proxyToBybit of server.js, up to await fetch(url, opts)
ProxyToBybit(rv, r) ==
    Called([Idle EXCEPT !.route = "proxy", !.req = r, !.env = RouteEnv(rv, r),
                        !.steps = <<"proxyToBybit">>],
           ProxyCall(rv, r))

\* the handler of app.get("/health")
HealthHandler(r) ==
    [Idle EXCEPT !.pc = "done", !.route = "health", !.req = r, !.res = <<HealthResponse>>]

-----------------------------------------------------------------------------
(* The inputs *)

\* every text over chars of length at most n
RECURSIVE Texts(_, _)
Texts(chars, n) ==
    IF n = 0 THEN {<<>>}
    ELSE LET shorter == Texts(chars, n - 1)
         IN  shorter \cup {Append(t, c) : t \in shorter, c \in chars}

TokenChars == {"t", "u", " ", CharOf(160)}
TailChars == {"t", "?"}

Token == <<"t">>

PresentedTokens == {Undefined} \cup Texts(TokenChars, MaxTokenLen)

Tails == Texts(TailChars, MaxTailLen)
CoreTails == {<<"t">>, <<"t", "?", "a">>, <<"t", "?", "a", "?", "t">>}
EnvTails == {<<"t", "?", "e", "n", "v", "=", "m", "a", "i", "n">>,
             <<"t", "?", "e", "n", "v", "=", "M", "A", "I", "N">>,
             <<"t", "?", "a", "&", "e", "n", "v", "=", "d", "e", "m", "o">>,
             <<"t", "?", "e", "n", "v", "=", "m", "a", "i", "n", "n", "e", "t">>,
             <<"t", "?", "e", "n", "v", "=", "m", "a", "i", "n", "&", "e", "n", "v", "=", "d", "e", "m", "o">>,
             <<"t", "?", "e", "n", "v">>,
             <<"t", "?", "e", "n", "v", "=", "%", "6", "D", "a", "i", "n">>,
             <<"t", "?", "e", "n", "v", "=", "m", "a", "i", "n", "+">>,
             <<"t", "?", "e", "n", "v", "=", "+", "d", "e", "m", "o", "%", "0", "A">>,
             <<"t", "?", "e", "n", "v", "[", "]", "=", "m", "a", "i", "n">>,
             <<"t", "?", "%", "6", "5", "n", "v", "=", "m", "a", "i", "n">>,
             <<"t", "?", "e", "n", "v", "[", "a", "]", "=", "m", "a", "i", "n">>,
             <<"t", "?", "e", "n", "v", "[", "t", "o", "S", "t", "r", "i", "n", "g", "]", "=", "x">>,
             <<"t", "?", "e", "n", "v", "[", "0", "]", "[", "a", "]", "=", "1", "&",
               "e", "n", "v", "[", "0", "]", "=", "x">>,
             <<"t", "?", "e", "n", "v", "=", "%", "C", "4", "%", "8", "0">>,
             <<"t", "?", "e", "n", "v", "=", "%", "C", "E", "%", "9", "1", "%", "C", "E", "%", "A", "3">>,
             <<"t", "?", "e", "n", "v", "=", "%", "{", "#">>,
             <<"t", "?", "e", "n", "v", "=", "%", "{">>,
             <<"t", "#", "?", "e", "n", "v", "=", "m", "a", "i", "n">>}
EnvHeaders == {Undefined, <<>>, <<" ">>, Demo, Main, Mainnet,
               <<" ", "D", "E", "M", "O", " ">>, <<"M", "a", "i", "n">>,
               <<"M", "A", "I", "N", "N", "E", "T">>,
               <<"s", "t", "a", "g", "i", "n", "g">>}

Methods == {"GET", "POST", "HEAD", "TRACE"}

NoBody == JUndefined
EmptyObject == JObject(<<>>)
Order == JObject(<<[k |-> <<"s">>, v |-> JString(<<"B">>)],
                   [k |-> <<"q">>, v |-> JString(<<"\"", "\n">>)]>>)
List == JArray(<<JString(<<"x">>), EmptyObject>>)
JsonBodies == {NoBody, EmptyObject, Order, List}
TextBodies == {JString(<<>>), JString(<<"x">>)}

NoHeaders == [n \in {} |-> <<>>]

\* the headers of a request to part_002
GateHeaders(token, e) ==
    [n \in (IF token = Undefined THEN {} ELSE {"x-proxy-token"})
           \cup (IF e = Undefined THEN {} ELSE {"x-bybit-env"}) |->
        IF n = "x-proxy-token" THEN token ELSE e]

\* the headers of a request to server.js
ClientHeaders ==
    {NoHeaders,
     [n \in {"x-bapi-api-key", "x-bapi-sign", "content-type", "x-forwarded-for"} |->
        CASE n = "content-type" -> <<"text/plain">> [] OTHER -> <<"c">>],
     [n \in {"x-bapi-timestamp", "x-bapi-recv-window", "accept", "cache-control"} |->
        CASE n = "accept" -> <<>> [] OTHER -> <<"1">>]}

Request(method, url, headers, body) ==
    [method |-> method, originalUrl |-> url, headers |-> headers, body |-> body]

\* requests for the proxy routes of revision rv
Requests(rv) ==
    CASE rv = "part_002" ->
           {Request("GET", BybitPrefix \o <<"/", "t">>, GateHeaders(k, Undefined), NoBody) :
                k \in PresentedTokens}
           \cup {Request("GET", BybitPrefix \o <<"/", "t">>, GateHeaders(Token, e), NoBody) :
                e \in EnvHeaders}
           \cup {Request("GET", BybitPrefix \o <<"/">> \o t, GateHeaders(Token, e), NoBody) :
                t \in EnvTails,
                e \in {Undefined, Main, <<"s", "t", "a", "g", "i", "n", "g">>}}
           \cup {Request("GET", BybitPrefix \o <<"/">> \o t, GateHeaders(Token, Demo), NoBody) :
                t \in {<<"t", "?", "e", "n", "v", "=", "m", "a", "i", "n">>,
                       <<"t", "?", "e", "n", "v", "[", "t", "o", "S", "t", "r", "i", "n", "g", "]", "=", "x">>}}
           \cup {Request(m, BybitPrefix \o <<"/", "t", "?", "a">>, GateHeaders(Token, Undefined), b) :
                m \in Methods, b \in JsonBodies}
           \cup {Request(m, BybitPrefix \o <<"/", "t">>, GateHeaders(k, e), Order) :
                m \in {"GET", "POST"}, k \in {Undefined, Token},
                e \in {Main, <<"s", "t", "a", "g", "i", "n", "g">>}}
           \cup {Request("GET", BybitPrefix \o <<"/">> \o t, GateHeaders(Token, Undefined), NoBody) :
                t \in CoreTails}
           \cup {Request(m, BybitPrefix \o <<"/">> \o t, GateHeaders(Token, Undefined), EmptyObject) :
                m \in {"GET", "POST"}, t \in Tails}
      [] rv = "server.js" ->
           {Request(m, p \o <<"/", "t", "?", "a">>, NoHeaders, b) :
                m \in Methods, p \in {MainnetPrefix, TestnetPrefix},
                b \in JsonBodies \cup TextBodies}
           \cup {Request(m, MainnetPrefix \o <<"/">> \o t, h, EmptyObject) :
                m \in {"GET", "POST"}, t \in CoreTails, h \in ClientHeaders}
           \cup {Request(m, MainnetPrefix \o <<"/">> \o t, NoHeaders, EmptyObject) :
                m \in {"GET", "POST"}, t \in Tails}
      [] OTHER ->
           {Request(m, MainnetPrefix \o <<"/", "t", "?", "a">>, NoHeaders, b) :
                m \in Methods, b \in JsonBodies}
           \cup {Request("GET", p \o <<"/">> \o t, NoHeaders, NoBody) :
                p \in {MainnetPrefix, TestnetPrefix}, t \in CoreTails}
           \cup {Request(m, TestnetPrefix \o <<"/">> \o t, NoHeaders, EmptyObject) :
                m \in {"GET", "POST"}, t \in Tails}

\* requests whose target names the routing prefix in capital letters, or holds a
\* backslash or a fragment, and requests no proxy route takes
RouteRequests(rv) ==
    IF rv = "part_002"
    THEN {Request(m, u, GateHeaders(Token, Undefined), EmptyObject) :
            m \in {"GET", "POST"},
            u \in {<<"/", "B", "Y", "B", "I", "T", "/", "t", "?", "e", "n", "v", "=", "m", "a", "i", "n">>,
            <<"/", "B", "y", "b", "i", "t", "/", "t", "?", "a">>,
            <<"/", "b", "y", "b", "i", "t", "\\", "t", "?", "a", "#">>,
            <<"/", "b", "y", "b", "i", "t", "/", "t", "#", "?", "a">>,
            <<"/", "b", "y", "b", "i", "t">>,
            <<"/", "b", "y", "b", "i", "t", "/", "%">>,
            <<"/", "b", "y", "b", "i", "t", "x", "/", "t">>,
            <<"/", "h", "e", "a", "l", "t", "h">>}}
    ELSE {Request(m, u, NoHeaders, EmptyObject) :
            m \in {"GET", "POST"},
            u \in {<<"/", "M", "A", "I", "N", "N", "E", "T", "/", "t", "?", "a">>,
            <<"/", "T", "e", "s", "t", "n", "e", "t", "/", "t">>,
            <<"/", "m", "a", "i", "n", "n", "e", "t", "\\", "t", "?", "a", "#">>,
            <<"/", "t", "e", "s", "t", "n", "e", "t", "/", "t", "#", "?", "a">>,
            <<"/", "m", "a", "i", "n", "n", "e", "t">>,
            <<"/", "t", "e", "s", "t", "n", "e", "t", "/", "%">>,
            <<"/", "m", "a", "i", "n", "n", "e", "t", "x", "/", "t">>,
            <<"/", "h", "e", "a", "l", "t", "h">>}}

\* the request a second client sends while the first one's is being handled
PlainRequests(rv) ==
    CASE rv = "part_002" ->
           {Request("GET", BybitPrefix \o <<"/", "t">>, GateHeaders(Token, Undefined), NoBody)}
      [] rv = "server.js" ->
           {Request("GET", MainnetPrefix \o <<"/", "t">>, NoHeaders, NoBody)}
      [] OTHER ->
           {Request("GET", TestnetPrefix \o <<"/", "t">>, NoHeaders, NoBody)}

\* the connections requests arrive on
Slots == {"a", "b"}

RequestsOn(rv, s) ==
    IF s = "a" THEN Requests(rv) \cup RouteRequests(rv) ELSE PlainRequests(rv)

\* the requests on connection s that a proxy route of revision rv takes: a request
\* no route takes is answered by Express and reaches no handler
Routed(rv, s) ==
    {q \in RequestsOn(rv, s) : OriginForm(q.originalUrl) /\ PrefixOf(rv, q) # None}

\* requests for the health check, and some that app.get("/health") does not take
HealthRequests ==
    {Request("GET", <<"/", "h", "e", "a", "l", "t", "h">>, NoHeaders, NoBody),
     Request("HEAD", <<"/", "H", "E", "A", "L", "T", "H", "/">>, NoHeaders, NoBody),
     Request("POST", <<"/", "h", "e", "a", "l", "t", "h">>, NoHeaders, NoBody),
     Request("GET", <<"/", "h", "e", "a", "l", "t", "h", "z">>, NoHeaders, NoBody)}

\* the API keys and secrets a deployment may have set
KeySettings ==
    {[mk |-> Undefined, ms |-> Undefined, dk |-> Undefined, ds |-> Undefined],
     [mk |-> <<"k">>, ms |-> <<"s">>, dk |-> <<"d">>, ds |-> <<"e">>],
     [mk |-> <<"k">>, ms |-> <<" ">>, dk |-> Undefined, ds |-> <<"e">>],
     [mk |-> <<" ", "k", " ">>, ms |-> <<"s">>, dk |-> <<>>, ds |-> <<>>]}

AllKeys == [mk |-> <<"k">>, ms |-> <<"s">>, dk |-> <<"d">>, ds |-> <<"e">>]

ProcessEnv(token, keys, window) ==
    [n \in EnvNames |->
        CASE n = "PROXY_TOKEN" -> token
          [] n = "BYBIT_MAINNET_API_KEY" -> keys.mk
          [] n = "BYBIT_MAINNET_SECRET" -> keys.ms
          [] n = "BYBIT_DEMO_API_KEY" -> keys.dk
          [] n = "BYBIT_DEMO_SECRET" -> keys.ds
          [] OTHER -> window]

\* the environments revision rv may be started in: it reads only its own variables
ProcessEnvs(rv) ==
    CASE rv = "part_002" ->
           {ProcessEnv(k, ks, Undefined) :
                k \in {Undefined, <<" ">>, Token}, ks \in KeySettings}
           \cup {ProcessEnv(Token, AllKeys, <<"9">>),
                 ProcessEnv(<<" ", "t", "u">>, AllKeys, <<"9">>),
                 ProcessEnv(<<"t", "\n">>, AllKeys, Undefined)}
      [] rv = "server.js" ->
           {[n \in EnvNames |-> Undefined]}
      [] OTHER ->
           {ProcessEnv(Undefined, ks, Undefined) : ks \in KeySettings}
           \cup {ProcessEnv(Undefined, AllKeys, <<"9">>)}

\* Date.now()
Times == (MaxNow - 1)..MaxNow

-----------------------------------------------------------------------------
(* The state machine: one action for each turn of the event loop *)

Init ==
    /\ rev \in Revisions
    /\ processEnv \in ProcessEnvs(rev)
    /\ inflight = [s \in Slots |-> Idle]

\* a request arrives that a proxy route of a signing revision takes (a request no
\* route takes is answered by Express and reaches no handler): the handler runs to
\* await fetch(url, opts), or to its end if it is stopped before or fetch refuses
HandleRequest(s) ==
    /\ rev \in Signing
    /\ inflight[s].pc = "idle"
    /\ \E r \in Routed(rev, s), now \in Times :
       \E a \in {mustAuth(rev, r)} :
       \E p \in {PickEnvStep(rev, r, a)} :
       \E c \in {CredsForStep(rev, p)} :
       \E o \in {LocalsStep(rev, r, c)} :
           inflight' = [inflight EXCEPT ![s] = Handler(rev, r, a, p, c, o, now)]
    /\ UNCHANGED <<rev, processEnv>>

\* a request arrives that a proxy route of server.js takes
ProxyRequest(s) ==
    /\ rev = "server.js"
    /\ inflight[s].pc = "idle"
    /\ \E r \in Routed(rev, s) :
           inflight' = [inflight EXCEPT ![s] = ProxyToBybit(rev, r)]
    /\ UNCHANGED <<rev, processEnv>>

\* a request arrives that the route /health takes
Health(s) ==
    /\ inflight[s].pc = "idle"
    /\ \E r \in {q \in HealthRequests : OriginForm(q.originalUrl) /\ HealthRoute(q)} :
           inflight' = [inflight EXCEPT ![s] = HealthHandler(r)]
    /\ UNCHANGED <<rev, processEnv>>

\* const r = await fetch(url, opts): the upstream's status line and headers arrived
FetchResolves(s) ==
    /\ inflight[s].pc = "fetch"
    /\ \E status \in UpstreamStatuses :
           inflight' = [inflight EXCEPT ![s].pc = "text",
                                        ![s].answer = FetchResolved(status)]
    /\ UNCHANGED <<rev, processEnv>>

\* await fetch(url, opts) rejects: the catch block answers 500 with the message
FetchRejects(s) ==
    /\ inflight[s].pc = "fetch"
    /\ \E e \in FetchErrors :
           inflight' = [inflight EXCEPT ![s].pc = "done",
                                        ![s].answer = FetchRejected(e),
                                        ![s].res = <<CatchResponse(e)>>]
    /\ UNCHANGED <<rev, processEnv>>

\* const text = await r.text(): the body arrived, and the handler relays status and text
TextResolves(s) ==
    /\ inflight[s].pc = "text"
    /\ \E text \in UpstreamTexts :
           inflight' = [inflight EXCEPT
                           ![s].pc = "done",
                           ![s].answer = TextResolved(inflight[s].answer.status, text),
                           ![s].res = <<RelayResponse(inflight[s].answer.status, text)>>]
    /\ UNCHANGED <<rev, processEnv>>

\* await r.text() rejects: the catch block answers 500 with the message
TextRejects(s) ==
    /\ inflight[s].pc = "text"
    /\ \E e \in TextErrors :
           inflight' = [inflight EXCEPT
                           ![s].pc = "done",
                           ![s].answer = TextRejected(inflight[s].answer.status, e),
                           ![s].res = <<CatchResponse(e)>>]
    /\ UNCHANGED <<rev, processEnv>>

\* the response is written out and the connection takes the next request
Finish(s) ==
    /\ inflight[s].pc = "done"
    /\ inflight' = [inflight EXCEPT ![s] = Idle]
    /\ UNCHANGED <<rev, processEnv>>

Next ==
    \E s \in Slots :
        \/ HandleRequest(s)
        \/ ProxyRequest(s)
        \/ Health(s)
        \/ FetchResolves(s)
        \/ FetchRejects(s)
        \/ TextResolves(s)
        \/ TextRejects(s)
        \/ Finish(s)

Spec == Init /\ [][Next]_vars

-----------------------------------------------------------------------------
(* What the claims speak of *)

Pipeline == <<"mustAuth", "pickEnv", "credsFor", "forwardToBybit">>

IsPrefix(a, b) == Len(a) <= Len(b) /\ SubSeq(b, 1, Len(a)) = a

\* a request to a proxy route is being handled or has been answered
OnProxy(h) == h.pc # "idle" /\ h.route = "proxy"

\* mustAuth let the request through
Admitted(h) == OnProxy(h) /\ h.steps # <<>> /\ h.steps[1] = "mustAuth"

\* the token the request presents, as sent and with surrounding white space removed
Presented(h) == Header(h.req, "x-proxy-token")
PresentedTrimmed(h) == Trim(IF Presented(h) = Undefined THEN <<>> ELSE Presented(h))

\* the text of { "error": message } for a message free of quotes and backslashes
ErrorJson(message) ==
    <<"{", "\"", "error", "\"", ":", "\"">> \o message \o <<"\"", "}">>

\* body is the text of some { "error": ... }
IsErrorJson(body) ==
    /\ Len(body) >= 8
    /\ SubSeq(body, 1, 6) = <<"{", "\"", "error", "\"", ":", "\"">>
    /\ SubSeq(body, Len(body) - 1, Len(body)) = <<"\"", "}">>

\* the key and the secret configured for environment e are both set
KeysSet(e) ==
    IF e = Main \/ e = Mainnet
    THEN MAIN_KEY # <<>> /\ MAIN_SECRET # <<>>
    ELSE DEMO_KEY # <<>> /\ DEMO_SECRET # <<>>

\* the inbound URL after the routing prefix, its path, and its query string
Rest(h) == SubSeq(h.req.originalUrl, Len(PrefixOf(rev, h.req)) + 1, Len(h.req.originalUrl))
RestPath(h) ==
    IF IndexOf(Rest(h), "?") = 0 THEN Rest(h)
    ELSE SubSeq(Rest(h), 1, IndexOf(Rest(h), "?") - 1)
RawQuery(h) ==
    IF IndexOf(Rest(h), "?") = 0 THEN <<>>
    ELSE SubSeq(Rest(h), IndexOf(Rest(h), "?") + 1, Len(Rest(h)))

\* the base URL of the environment the request selected
BaseOf(e) ==
    IF e = Main \/ e = Mainnet THEN BYBIT_MAINNET
    ELSE IF rev = "part_002" THEN BYBIT_DEMO
    ELSE BYBIT_TESTNET(rev)

-----------------------------------------------------------------------------
(* C1 *)

\* C1: in part_002 fetch is called only after mustAuth accepted the token, pickEnv
\* resolved demo or main and credsFor found both keys, in that order; a request
\* stopped at one of these steps is answered with an error and fetch is never called.
C1_GateBeforeOutbound ==
    \A s \in Slots :
        LET h == inflight[s]
        IN  rev = "part_002" /\ OnProxy(h) =>
                /\ IsPrefix(h.steps, Pipeline)
                /\ h.calls # <<>> =>
                     /\ h.steps = Pipeline
                     /\ PROXY_TOKEN # <<>> /\ PresentedTrimmed(h) = PROXY_TOKEN
                     /\ h.env \in {Demo, Main}
                     /\ KeysSet(h.env)
                /\ h.steps # Pipeline =>
                     /\ h.pc = "done"
                     /\ h.calls = <<>>
                     /\ Len(h.res) = 1
                     /\ h.res[1].status \in {401, 500}
                     /\ IsErrorJson(h.res[1].body)
                /\ PresentedTrimmed(h) # PROXY_TOKEN => h.calls = <<>>
                /\ Header(h.req, "x-bybit-env") = <<"s", "t", "a", "g", "i", "n", "g">> =>
                     h.calls = <<>> /\ h.pc = "done" /\ h.res[1].status \in {401, 500}

\* a request of part_002 passed all three steps, was forwarded and answered
C1_Witness ==
    \E s \in Slots :
        LET h == inflight[s]
        IN  /\ rev = "part_002"
            /\ h.pc = "done"
            /\ h.steps = Pipeline
            /\ Len(h.calls) = 1
            /\ h.answer.stage = "text" /\ h.answer.ok

-----------------------------------------------------------------------------
(* C2 *)

\* C2 as stated: with a token configured, mustAuth accepts exactly the requests whose
\* presented token equals the configured one character for character, and answers
\* every other one 401 {"error":"Unauthorized"}.
C2_ExactEquality ==
    \A s \in Slots :
        LET h == inflight[s]
        IN  rev = "part_002" /\ OnProxy(h) /\ PROXY_TOKEN # <<>> =>
                /\ Admitted(h) <=> Presented(h) = PROXY_TOKEN
                /\ ~Admitted(h) =>
                     /\ h.res = <<[status |-> 401, contentType |-> ApplicationJson,
                                   body |-> ErrorJson(<<"Unauthorized">>)]>>
                     /\ h.calls = <<>>

\* C2 amended: with a token configured, mustAuth accepts exactly the requests whose
\* presented token, with leading and trailing white space removed, equals the
\* configured one; every other one (an absent header too) is answered
\* 401 {"error":"Unauthorized"} and is not forwarded.
C2_TrimmedEquality ==
    \A s \in Slots :
        LET h == inflight[s]
        IN  rev = "part_002" /\ OnProxy(h) /\ PROXY_TOKEN # <<>> =>
                /\ Admitted(h) <=> PresentedTrimmed(h) = PROXY_TOKEN
                /\ ~Admitted(h) =>
                     /\ h.res = <<[status |-> 401, contentType |-> ApplicationJson,
                                   body |-> ErrorJson(<<"Unauthorized">>)]>>
                     /\ h.calls = <<>>

\* a token padded with white space was accepted
C2_Witness ==
    \E s \in Slots :
        LET h == inflight[s]
        IN  /\ rev = "part_002"
            /\ Admitted(h)
            /\ PROXY_TOKEN # <<>>
            /\ Presented(h) # PROXY_TOKEN

-----------------------------------------------------------------------------
(* C3 *)

\* C3: with no proxy token configured, every request is refused with status 500 and
\* never forwarded, in part_000 as in part_002.
C3_FailClosed ==
    \A s \in Slots :
        LET h == inflight[s]
        IN  rev \in {"part_000", "part_002"} /\ OnProxy(h) /\ PROXY_TOKEN = <<>> =>
                /\ h.calls = <<>>
                /\ h.pc = "done" => ~Admitted(h) /\ Len(h.res) = 1 /\ h.res[1].status = 500

-----------------------------------------------------------------------------
(* C4 *)

\* the header's value, trimmed and in lower case
EnvHeaderText(h) ==
    ToLowerCase(Trim(IF Header(h.req, "x-bybit-env") = Undefined THEN <<>>
                     ELSE Header(h.req, "x-bybit-env")))

\* the query parameter's value has a text; that text, trimmed and in lower case
EnvQueryOk(h) == QueryEnvText(h.req).ok
EnvQueryText(h) == ToLowerCase(Trim(QueryEnvText(h.req).v))

\* pickEnv was called
Picked(h) == rev = "part_002" /\ Admitted(h)

\* pickEnv returned
PickedSome(h) == "pickEnv" \in {h.steps[i] : i \in 1..Len(h.steps)}

\* the request was answered 500 with the message of an invalid environment that
\* starts with start (the message up to the value, or including it), and not forwarded
InvalidEnvAnswered(h, start) ==
    /\ h.pc = "done"
    /\ h.calls = <<>>
    /\ Len(h.res) = 1
    /\ h.res[1].status = 500
    /\ IsPrefix(<<"{", "\"", "error", "\"", ":", "\"", "Invalid env ", "\\", "\"">> \o start,
                h.res[1].body)

\* pickEnv resolved to e: it returned e if e is one of accepted, and failed with the
\* error that carries e if it is not
ResolvedTo(h, e, accepted) ==
    IF e \in accepted THEN PickedSome(h) /\ h.env = e
    ELSE ~PickedSome(h) /\ InvalidEnvAnswered(h, JsonChars(e) \o <<"\\", "\"">>)

\* what C4 says of a request whose header, trimmed and in lower case, is header: the
\* header's value is resolved if there is one, else the query parameter's if there
\* is one, else the default; a query parameter whose value has no text is resolved
\* to some environment or fails as an invalid one, pickEnv being total
StatedOf(h, header) ==
    IF header # <<>> THEN ResolvedTo(h, header, {Mainnet, Demo})
    ELSE IF ~EnvQueryOk(h) THEN PickedSome(h) \/ InvalidEnvAnswered(h, <<>>)
    ELSE IF EnvQueryText(h) # <<>> THEN ResolvedTo(h, EnvQueryText(h), {Mainnet, Demo})
    ELSE ResolvedTo(h, Demo, {Mainnet, Demo})

\* C4: pickEnv is total and resolves, after trimming and lower-casing, the header's
\* value if the header is present (also when the query parameter names another
\* value), else the query parameter's value if that is present, else the default
\* "demo"; the result is accepted exactly when it is "mainnet" or "demo", and any
\* other text fails with the error of an invalid environment that carries the text.
C4_MainnetOrDemo ==
    \A s \in Slots :
        Picked(inflight[s]) => StatedOf(inflight[s], EnvHeaderText(inflight[s]))

-----------------------------------------------------------------------------
(* C5 *)

\* forwardToBybit put the four authentication headers on the call
Signed(h) == "X-BAPI-SIGN" \in DOMAIN h.calls[1].opts.headers

\* C5: for every call of fetch by a signing revision with a method other than GET, the
\* body handed to fetch is the payload the signature was computed over, and both are
\* the one serialization of the request body ("{}" for an absent body).
C5_BodyIsSignedPayload ==
    \A s \in Slots :
        LET h == inflight[s]
        IN  rev \in Signing /\ OnProxy(h) /\ h.calls # <<>> /\ h.calls[1].opts.method # "GET" =>
                /\ h.calls[1].opts.body # Undefined
                /\ h.calls[1].opts.body = h.out.payload
                /\ h.req.body.t = "undefined" => h.calls[1].opts.body = <<"{", "}">>
                /\ h.req.body = Order =>
                     h.calls[1].opts.body =
                         <<"{", "\"", "s", "\"", ":", "\"", "B", "\"", ",",
                           "\"", "q", "\"", ":", "\"", "\\", "\"", "\\", "n", "\"", "}">>
                /\ Signed(h) =>
                     /\ Len(h.signings) = 1
                     /\ h.signings[1].payload = h.calls[1].opts.body
                     /\ h.calls[1].opts.headers["X-BAPI-SIGN"] =
                            <<"hmac-sha256-hex", h.signings[1].secret,
                              h.signings[1].timestamp \o h.signings[1].apiKey
                                \o h.signings[1].recvWindow \o h.calls[1].opts.body>>

\* a signed POST with a JSON body was forwarded and answered
C5_Witness ==
    \E s \in Slots :
        LET h == inflight[s]
        IN  /\ rev = "part_002"
            /\ h.pc = "done"
            /\ h.calls # <<>>
            /\ h.calls[1].opts.method = "POST"
            /\ h.req.body = Order
            /\ Signed(h)
            /\ h.answer.stage = "text" /\ h.answer.ok

-----------------------------------------------------------------------------
(* C6 *)

\* C6: for every GET the signing payload is the inbound query string without its
\* leading "?", whatever characters it holds, and empty when there is none.
C6_GetPayloadIsQuery ==
    \A s \in Slots :
        LET h == inflight[s]
        IN  rev \in {"part_000", "part_002"} /\ OnProxy(h) /\ h.calls # <<>>
              /\ h.out.method = "GET" =>
                h.out.payload = RawQuery(h)

-----------------------------------------------------------------------------
(* C7 *)

\* C7: the URL handed to fetch is the base URL of the selected environment followed by
\* the inbound path and query after the routing prefix, nothing dropped (a "?" with
\* nothing behind it may be kept or left out).
C7_UrlPassThrough ==
    \A s \in Slots :
        LET h == inflight[s]
        IN  rev \in {"part_000", "part_002", "server.js"} /\ OnProxy(h) /\ h.calls # <<>> =>
                \/ h.calls[1].url = BaseOf(h.env) \o Rest(h)
                \/ h.calls[1].url = BaseOf(h.env) \o RestPath(h)
                       \o (IF RawQuery(h) # <<>> THEN <<"?">> \o RawQuery(h) ELSE <<>>)

-----------------------------------------------------------------------------
(* C8 *)

\* C8: a call of fetch with method GET or HEAD carries no body.
C8_NoBodyOnGetHead ==
    \A s \in Slots :
        LET h == inflight[s]
        IN  OnProxy(h) /\ h.calls # <<>> /\ h.calls[1].opts.method \in {"GET", "HEAD"} =>
                h.calls[1].opts.body = Undefined

-----------------------------------------------------------------------------
(* C9 *)

\* the environment of the request is known
EnvChosen(h) == OnProxy(h) /\ h.env # None

\* C9: signBybit is never called with a missing apiKey or secret: when a key of the
\* selected environment is missing the request is answered 500 before fetch
\* (part_001, part_002) or forwarded with none of the four authentication headers
\* (part_000); when both are set the call carries all four, the timestamp and
\* receive-window headers being the values signed.
C9_SignerNeedsBothKeys ==
    \A s \in Slots :
        LET h == inflight[s]
        IN  rev \in Signing /\ OnProxy(h) =>
                /\ \A i \in 1..Len(h.signings) :
                     /\ h.signings[i].apiKey \notin {<<>>, Null, Undefined}
                     /\ h.signings[i].secret \notin {<<>>, Null, Undefined}
                /\ EnvChosen(h) /\ ~KeysSet(h.env) =>
                     /\ h.signings = <<>>
                     /\ IF rev = "part_000"
                        THEN /\ h.calls # <<>>
                             /\ DOMAIN h.calls[1].opts.headers \cap AuthHeaderNames = {}
                        ELSE /\ h.calls = <<>>
                             /\ h.pc = "done"
                             /\ h.res[1].status = 500
                /\ EnvChosen(h) /\ KeysSet(h.env) /\ h.calls # <<>> =>
                     /\ AuthHeaderNames \subseteq DOMAIN h.calls[1].opts.headers
                     /\ Len(h.signings) = 1
                     /\ h.calls[1].opts.headers["X-BAPI-API-KEY"] = h.signings[1].apiKey
                     /\ h.calls[1].opts.headers["X-BAPI-TIMESTAMP"] = h.signings[1].timestamp
                     /\ h.calls[1].opts.headers["X-BAPI-RECV-WINDOW"] = h.signings[1].recvWindow
                     /\ h.signings[1].recvWindow = RECV_WINDOW
                     /\ h.calls[1].opts.headers["X-BAPI-SIGN"] =
                            <<"hmac-sha256-hex", h.signings[1].secret,
                              h.calls[1].opts.headers["X-BAPI-TIMESTAMP"]
                                \o h.calls[1].opts.headers["X-BAPI-API-KEY"]
                                \o h.calls[1].opts.headers["X-BAPI-RECV-WINDOW"]
                                \o h.out.payload>>

\* part_000 forwarded a request of an environment without keys, unsigned
C9_Witness ==
    \E s \in Slots :
        LET h == inflight[s]
        IN  /\ rev = "part_000"
            /\ EnvChosen(h)
            /\ ~KeysSet(h.env)
            /\ h.calls # <<>>
            /\ DOMAIN h.calls[1].opts.headers = {"Content-Type"}

-----------------------------------------------------------------------------
(* C10 *)

\* C10: a request that passed mustAuth (every request, in server.js) is answered
\* once, when the handler ends, and fetch is called at most once: the upstream's
\* status and text are relayed as they came if fetch and the reading of the body
\* completed, and any failure is answered 500 with the JSON body
\* { "error": <message> }, the message being the one the failure carries.
C10_OneResponse ==
    \A s \in Slots :
        LET h == inflight[s]
        IN  OnProxy(h) =>
                /\ Len(h.res) <= 1
                /\ Len(h.calls) <= 1
                /\ h.pc = "done" <=> Len(h.res) = 1
                /\ h.pc \in {"fetch", "text"} => h.calls # <<>>
                /\ h.pc = "done" /\ (rev = "server.js" \/ Admitted(h)) =>
                     IF h.answer.stage = "text" /\ h.answer.ok
                     THEN /\ h.calls # <<>>
                          /\ h.res[1].status = h.answer.status
                          /\ h.res[1].body = h.answer.text
                     ELSE /\ h.res[1].status = 500
                          /\ h.res[1].contentType = ApplicationJson
                          /\ IsErrorJson(h.res[1].body)
                          /\ h.answer.stage # "none" =>
                               h.res[1].body = ErrorJson(h.answer.text)

\* the upstream refused a request with 403 and the 403 was relayed, while the other
\* connection's request was still waiting for its answer
C10_Witness ==
    \E s \in Slots :
        LET h == inflight[s]
        IN  /\ h.pc = "done"
            /\ Admitted(h)
            /\ h.calls # <<>>
            /\ h.answer.stage = "text" /\ h.answer.ok
            /\ h.answer.status = 403
            /\ h.res[1].status = 403
            /\ \E o \in Slots \ {s} : inflight[o].pc \in {"fetch", "text"}

=============================================================================
